---- MODULE Spec2Model ----
(***************************************************************************)
(* The AI decision engine of CIVISENCE (src/ai_service/app): the           *)
(* deduplicating processing queue and its single worker, the per-item AI   *)
(* processor, the retry reconciler and the change-stream listener, all     *)
(* running as cooperative asyncio tasks against one complaints collection. *)
(*                                                                         *)
(* Granularity.  asyncio tasks interleave only at awaits that really       *)
(* suspend: store operations, image fetch / inference, an empty            *)
(* queue.get() and sleeps.  asyncio.Lock is only ever held across code     *)
(* with no await in it, so `async with self._lock` never suspends, and     *)
(* put() on the unbounded asyncio.Queue never suspends.  A store           *)
(* operation takes effect atomically at the server; the coroutine that     *)
(* issued it resumes in a later step, so other tasks can run in between.   *)
(***************************************************************************)
EXTENDS Integers, Sequences, FiniteSets, TLC

\* ---------------------------------------------------------------- bounds
MaxEnqueued == 4      \* cap on successful enqueues (queue_enqueued)
MaxBacklog == 27      \* complaints in the collection when the service restarts

\* ------------------------------------------------------ program constants
max_retry_attempts == 3
retry_batch_size == 25

\* complaint ids; createdAt increases with the id (ids are opaque, so this
\* loses no behaviour)
CIDs == {1, 2}
None == 0             \* Python None for in_flight_complaint_id
Sweepers == {"task", "startup"}

VARIABLES
    doc,                \* complaints collection: cid -> priority.* / aiMeta.error
    replica_set_enabled,\* MongoDB.replica_set_enabled
    change_stream_running,
    lpc,                \* listener position
    events,             \* insert events in the open change stream, not yet delivered
    queue,              \* ProcessingQueue._queue (FIFO)
    queued_ids,         \* ProcessingQueue._queued_ids
    in_flight,          \* RuntimeStats.in_flight_complaint_id
    queue_enqueued,     \* RuntimeStats.queue_enqueued
    processed_success,  \* RuntimeStats.processed_success
    processed_failed,   \* RuntimeStats.processed_failed
    retried,            \* RuntimeStats.retried
    retry_attempts,     \* RuntimeStats.retry_attempts (0 = no entry)
    wpc,                \* queue worker position
    spc,                \* reconciler position, per concurrent run_once
    cursor,             \* per run_once: documents left in the open cursor
    attempt_count,      \* per run_once: local attempt_count of the failed loop
    \* history (ghost) variables, read by no guard
    enq_ret,            \* the last enqueue call: its cid and return value
    tickets,            \* for each queued cid, the ordinal of its successful enqueue
    handed,             \* ordinal of the enqueue last handed to the processor
    flight_claims,      \* claim writes during the current in-flight period
    claims_since_pending, \* per cid: successful claims since it last became pending
    ledger,             \* claims that returned a document, success writes applied
                        \* by the store, and those of them whose call raised
    \* shutdown (main.py lifespan, the three stop() methods)
    lifespan,           \* position of the lifespan context manager
    stopping,           \* components whose _stopping event is set
    cancelling,         \* tasks with a cancellation requested and not yet delivered
    closed,             \* clients that have been closed
    \* one call of a function of ai_processor.py / priority_engine.py, studied
    \* on its own (the queue machine above leaves both alone)
    args,               \* the call's arguments
    ret                 \* its position and, once it has returned, its result

vars == <<doc, replica_set_enabled, change_stream_running, lpc, events, queue,
          queued_ids, in_flight, queue_enqueued, processed_success,
          processed_failed, retried, retry_attempts, wpc, spc, cursor,
          attempt_count, enq_ret, tickets, handed, flight_claims,
          claims_since_pending, ledger, lifespan, stopping, cancelling,
          closed, args, ret>>

storeVars == <<doc, claims_since_pending>>
listenerVars == <<replica_set_enabled, change_stream_running, lpc, events>>
queueVars == <<queue, queued_ids, queue_enqueued, tickets>>
statVars == <<processed_success, processed_failed, retried, retry_attempts>>
workerVars == <<in_flight, wpc, handed, flight_claims>>
sweepVars == <<spc, cursor, attempt_count>>
callVars == <<args, ret>>
lifeVars == <<lifespan, stopping, cancelling, closed>>
machineVars == <<storeVars, listenerVars, queueVars, statVars, workerVars,
                 sweepVars, enq_ret, ledger, lifeVars>>

NoCall == [cid |-> None, ret |-> FALSE]
NoArgs == [fn |-> "none"]

\* ------------------------------------------------------------- documents
NoDoc == [status |-> "absent", aiProcessed |-> FALSE, error |-> FALSE]

\* database/test.py: a submitted complaint is unprocessed and pending
NewDoc == [status |-> "pending", aiProcessed |-> FALSE, error |-> FALSE]

Exists(c) == doc[c].status # "absent"

\* filter {"priority.aiProcessed": False, "priority.aiProcessingStatus": st}
Matches(d, st) == d.status = st /\ d.aiProcessed = FALSE

\* find(filter).sort("createdAt", 1).limit(n): ids are in createdAt order
SortedAsc(S) ==
    [i \in 1..Cardinality(S) |->
        CHOOSE x \in S : Cardinality({y \in S : y < x}) = i - 1]

\* faulty variant: the cursor is not limited
Limit_All(s, n) == s

Limit(s, n) == IF Len(s) <= n THEN s ELSE SubSeq(s, 1, n)

FindOldest(st) ==
    Limit(SortedAsc({c \in DOMAIN doc : Matches(doc[c], st)}), retry_batch_size)

\* ------------------------------------------------- ProcessingQueue.enqueue
\* faulty variant: the in-flight check is forgotten
EnqueueRejects_QueuedOnly(c) == c \in queued_ids

\* "if complaint_id in self._queued_ids or complaint_id == ...in_flight..."
EnqueueRejects(c) == c \in queued_ids \/ c = in_flight

\* The whole of enqueue runs without suspending: the lock is free and the
\* queue is unbounded.
Enqueue(c) ==
    IF EnqueueRejects(c)
    THEN /\ UNCHANGED <<queueVars, callVars, lifeVars, ledger>>
         /\ enq_ret' = [cid |-> c, ret |-> FALSE]
    ELSE /\ queue_enqueued < MaxEnqueued
         /\ queued_ids' = queued_ids \cup {c}
         /\ queue' = Append(queue, c)
         /\ queue_enqueued' = queue_enqueued + 1
         /\ tickets' = Append(tickets, queue_enqueued + 1)
         /\ enq_ret' = [cid |-> c, ret |-> TRUE]
         /\ UNCHANGED <<callVars, lifeVars, ledger>>

\* A step that calls no enqueue; the ledger (history) becomes l.
Tally(l) ==
    /\ UNCHANGED <<queueVars, callVars, lifeVars>>
    /\ enq_ret' = NoCall
    /\ ledger' = l

\* The ledger is kept only by the specification that reads it.
NoLedger == [kept |-> FALSE]
NewLedger == [kept |-> TRUE, claimed |-> 0, written |-> 0, raised |-> 0]
Claimed(l) == IF l.kept THEN [l EXCEPT !.claimed = l.claimed + 1] ELSE l
Written(l) == IF l.kept THEN [l EXCEPT !.written = l.written + 1] ELSE l
WrittenRaised(l) ==
    IF l.kept THEN [l EXCEPT !.written = l.written + 1, !.raised = l.raised + 1]
    ELSE l

NoEnqueue == Tally(ledger)

\* -------------------------------------------------- external submission
\* A complaint is inserted pending and unprocessed; an open change stream
\* (pipeline: insert, aiProcessed false, status pending) receives the event.
Submit(c) ==
    /\ ~Exists(c)
    /\ \A b \in CIDs : b < c => Exists(b)
    /\ doc' = [doc EXCEPT ![c] = NewDoc]
    /\ claims_since_pending' = [claims_since_pending EXCEPT ![c] = 0]
    /\ events' = IF lpc = "watching" THEN Append(events, c) ELSE events
    /\ NoEnqueue
    /\ UNCHANGED <<replica_set_enabled, change_stream_running, lpc>>
    /\ UNCHANGED <<statVars, workerVars, sweepVars>>

\* ----------------------------------------------- ChangeStreamListener._run
\* faulty variant: the listener subscribes whatever the deployment
Subscribes_Always(replica) == TRUE

\* "if not self.mongodb.replica_set_enabled: ... return"
Subscribes(replica) == replica

ListenerStart ==
    /\ lpc = "start"
    /\ IF ~Subscribes(replica_set_enabled)
       THEN /\ change_stream_running' = FALSE
            /\ lpc' = "returned"
       ELSE /\ change_stream_running' = TRUE
            /\ lpc' = "watching"
    /\ NoEnqueue
    /\ UNCHANGED <<replica_set_enabled, events>>
    /\ UNCHANGED <<storeVars, statVars, workerVars, sweepVars>>

ListenerEvent ==
    /\ lpc = "watching"
    /\ events # <<>>
    /\ Enqueue(Head(events))
    /\ events' = Tail(events)
    /\ UNCHANGED <<replica_set_enabled, change_stream_running, lpc>>
    /\ UNCHANGED <<storeVars, statVars, workerVars, sweepVars>>

\* "except Exception: self.runtime_stats.change_stream_running = False"
\* faulty variant: the flag is left as it was
RunningAfterError_Kept == TRUE

RunningAfterError == FALSE

\* The stream raises (transport error in watch() or in the iteration): the
\* `async with` closes the stream, so events not yet delivered are gone; the
\* handler clears the flag, logs and sleeps 5 s.
StreamError ==
    /\ lpc = "watching"
    /\ change_stream_running' = RunningAfterError
    /\ lpc' = "backoff"
    /\ events' = <<>>
    /\ NoEnqueue
    /\ UNCHANGED replica_set_enabled
    /\ UNCHANGED <<storeVars, statVars, workerVars, sweepVars>>

\* The sleep is over: back at the loop head, watch() is called afresh (no
\* resume token) and the flag is set.
Resubscribe ==
    /\ lpc = "backoff"
    /\ change_stream_running' = TRUE
    /\ lpc' = "watching"
    /\ NoEnqueue
    /\ UNCHANGED <<replica_set_enabled, events>>
    /\ UNCHANGED <<storeVars, statVars, workerVars, sweepVars>>

\* ------------------------------------------------- ProcessingQueue._run
\* faulty variant: the newest item is taken (a LIFO queue)
QueueGetIndex_Last(q) == Len(q)

\* asyncio.Queue.get() takes the item at the left end
QueueGetIndex(q) == 1

\* faulty variant: the dequeued cid is left in the queued set
QueuedAfterGet_Kept(ids, c) == ids

\* "async with self._lock: self._queued_ids.discard(complaint_id)"
QueuedAfterGet(ids, c) == ids \ {c}

RemoveAt(q, i) == SubSeq(q, 1, i - 1) \o SubSeq(q, i + 1, Len(q))

\* get(), set the in-flight marker, discard from the queued set, and issue
\* the claim: one uninterrupted segment.
Dequeue ==
    /\ wpc = "idle"
    /\ queue # <<>>
    /\ LET i == QueueGetIndex(queue) IN
        /\ in_flight' = queue[i]
        /\ queued_ids' = QueuedAfterGet(queued_ids, queue[i])
        /\ queue' = RemoveAt(queue, i)
        /\ handed' = tickets[i]
        /\ tickets' = RemoveAt(tickets, i)
    /\ flight_claims' = 0
    /\ wpc' = "claim"
    /\ enq_ret' = NoCall
    /\ UNCHANGED queue_enqueued
    /\ UNCHANGED <<storeVars, listenerVars, statVars, sweepVars, callVars>>
    /\ UNCHANGED <<lifeVars, ledger>>

\* finally: clear the marker; `except Exception` has logged the error, the
\* while loop goes on.
FinallyInFlight == None

\* faulty variant: an exception out of process_complaint ends the worker task
LoopAfter_Escapes(pc) == IF pc = "raised" THEN "dead" ELSE "idle"

LoopAfter(pc) == "idle"

\* ------------------------------------------- AIProcessor.process_complaint
\* faulty variant: the claim is keyed on the id alone
ClaimFilter_IdOnly(d) == d.status # "absent"

ClaimFilter(d) == Matches(d, "pending")

\* faulty variant: the claim returns the document without marking it
ClaimUpdate_Unmarked(d) == d

\* {"$set": {"priority.aiProcessingStatus": "processing"}}
ClaimUpdate(d) == [d EXCEPT !.status = "processing"]

\* faulty variant: the processor goes on without a claimed document
AfterClaim_NoCheck(found) == "priority"

\* "if complaint is None: return"
AfterClaim(found) == IF found THEN "priority" ELSE "claim_none"

ClaimWrite(c) ==
    /\ doc' = [doc EXCEPT ![c] = ClaimUpdate(doc[c])]
    /\ flight_claims' = flight_claims + 1
    /\ claims_since_pending' =
           [claims_since_pending EXCEPT ![c] = claims_since_pending[c] + 1]

\* find_one_and_update at the server.  (ObjectId(complaint_id) cannot fail
\* here: every enqueued id is str() of a stored _id.)
Claim ==
    /\ wpc = "claim"
    /\ IF ClaimFilter(doc[in_flight])
       THEN /\ ClaimWrite(in_flight)
            /\ wpc' = AfterClaim(TRUE)
            /\ Tally(Claimed(ledger))
       ELSE /\ UNCHANGED <<storeVars, flight_claims>>
            /\ wpc' = AfterClaim(FALSE)
            /\ NoEnqueue
    /\ UNCHANGED <<in_flight, handed>>
    /\ UNCHANGED <<listenerVars, statVars, sweepVars>>

\* A store error on the claim (outside the try block) escapes
\* process_complaint; the write was applied or not.
ClaimRaise ==
    /\ wpc = "claim"
    /\ \/ /\ ClaimFilter(doc[in_flight])
          /\ ClaimWrite(in_flight)
       \/ UNCHANGED <<storeVars, flight_claims>>
    /\ wpc' = "raised"
    /\ NoEnqueue
    /\ UNCHANGED <<in_flight, handed>>
    /\ UNCHANGED <<listenerVars, statVars, sweepVars>>

\* faulty variant: the success write is issued before the image is analysed
Stages_WriteEarly == <<"priority", "mark_success", "image", "duplicate">>

\* the awaits of the try block, in order (ai_processor.py 119-134)
Stages == <<"priority", "image", "duplicate", "mark_success">>
StageIndex(pc) == CHOOSE i \in 1..Len(Stages) : Stages[i] = pc
PipelineStages == {"priority", "image", "duplicate"}

\* priority_engine.compute, _analyze_image, _check_duplicate_from_embedding
\* each return; after the last one the success write is issued.  Each of
\* them can raise (store queries; the fingerprint is computed outside any
\* try), see StageRaise.
StageOk ==
    /\ wpc \in PipelineStages
    /\ wpc' = Stages[StageIndex(wpc) + 1]
    /\ NoEnqueue
    /\ UNCHANGED <<in_flight, handed, flight_claims>>
    /\ UNCHANGED <<storeVars, listenerVars, statVars, sweepVars>>

\* "except Exception": processed_failed += 1, then _mark_failed is issued
\* faulty variant: the handler writes the failure back without counting it
HandlerFailed_Uncounted == processed_failed

HandlerFailed == processed_failed + 1
HandlerSuccess == processed_success

StageRaise ==
    /\ wpc \in PipelineStages
    /\ processed_failed' = HandlerFailed
    /\ processed_success' = HandlerSuccess
    /\ wpc' = "mark_failed"
    /\ NoEnqueue
    /\ UNCHANGED <<retried, retry_attempts>>
    /\ UNCHANGED <<in_flight, handed, flight_claims>>
    /\ UNCHANGED <<storeVars, listenerVars, sweepVars>>

\* _analyze_image when the download fails (404, timeout, not an image):
\* "except Exception" around download_image logs a warning, image stays None
\* and the context returned is semantic_note = "image_unavailable".
\* faulty variant: the download error is left to the handler of the pipeline
FetchFailureRaises_Propagates == TRUE

FetchFailureRaises == FALSE

ImageUnavailable ==
    /\ wpc = "image"
    /\ IF FetchFailureRaises
       THEN /\ processed_failed' = HandlerFailed
            /\ wpc' = "mark_failed"
       ELSE /\ UNCHANGED processed_failed
            /\ wpc' = Stages[StageIndex(wpc) + 1]
    /\ NoEnqueue
    /\ UNCHANGED <<processed_success, retried, retry_attempts>>
    /\ UNCHANGED <<in_flight, handed, flight_claims>>
    /\ UNCHANGED <<storeVars, listenerVars, sweepVars>>

\* update_one({"_id": cid}, {"$set": ...}): no upsert
SuccessDoc(d) ==
    IF d.status = "absent" THEN d
    ELSE [status |-> "done", aiProcessed |-> TRUE, error |-> FALSE]

\* faulty variant: a failed item is flagged as processed
FailedDoc_Processed(d) ==
    IF d.status = "absent" THEN d
    ELSE [status |-> "failed", aiProcessed |-> TRUE, error |-> TRUE]

FailedDoc(d) ==
    IF d.status = "absent" THEN d
    ELSE [status |-> "failed", aiProcessed |-> FALSE, error |-> TRUE]

MarkSuccess ==
    /\ wpc = "mark_success"
    /\ doc' = [doc EXCEPT ![in_flight] = SuccessDoc(doc[in_flight])]
    /\ wpc' = "success_ret"
    /\ Tally(Written(ledger))
    /\ UNCHANGED <<in_flight, handed, flight_claims, claims_since_pending>>
    /\ UNCHANGED <<listenerVars, statVars, sweepVars>>

\* the success write raises (applied or not): the handler takes over
MarkSuccessRaise ==
    /\ wpc = "mark_success"
    /\ \/ /\ doc' = [doc EXCEPT ![in_flight] = SuccessDoc(doc[in_flight])]
          /\ Tally(WrittenRaised(ledger))
       \/ /\ UNCHANGED doc
          /\ NoEnqueue
    /\ processed_failed' = HandlerFailed
    /\ processed_success' = HandlerSuccess
    /\ wpc' = "mark_failed"
    /\ UNCHANGED <<retried, retry_attempts>>
    /\ UNCHANGED <<in_flight, handed, flight_claims, claims_since_pending>>
    /\ UNCHANGED <<listenerVars, sweepVars>>

\* processed_success += 1; retry_attempts.pop(cid, None); then finally
SuccessReturn ==
    /\ wpc = "success_ret"
    /\ processed_success' = processed_success + 1
    /\ retry_attempts' = [retry_attempts EXCEPT ![in_flight] = 0]
    /\ in_flight' = FinallyInFlight
    /\ wpc' = LoopAfter(wpc)
    /\ NoEnqueue
    /\ UNCHANGED <<processed_failed, retried, handed, flight_claims>>
    /\ UNCHANGED <<storeVars, listenerVars, sweepVars>>

MarkFailed ==
    /\ wpc = "mark_failed"
    /\ doc' = [doc EXCEPT ![in_flight] = FailedDoc(doc[in_flight])]
    /\ wpc' = "failed_ret"
    /\ NoEnqueue
    /\ UNCHANGED <<in_flight, handed, flight_claims, claims_since_pending>>
    /\ UNCHANGED <<listenerVars, statVars, sweepVars>>

\* the failure write raises inside the handler (applied or not): the
\* exception escapes process_complaint
MarkFailedRaise ==
    /\ wpc = "mark_failed"
    /\ \/ doc' = [doc EXCEPT ![in_flight] = FailedDoc(doc[in_flight])]
       \/ UNCHANGED doc
    /\ wpc' = "raised"
    /\ NoEnqueue
    /\ UNCHANGED <<in_flight, handed, flight_claims, claims_since_pending>>
    /\ UNCHANGED <<listenerVars, statVars, sweepVars>>

\* process_complaint has returned (claim_none, failed_ret) or raised
ReturnedPcs == {"claim_none", "failed_ret", "raised"}

\* faulty variant: an item without a claimed document is counted as a failure
FailedOnReturn_CountsSkip(pc) ==
    IF pc = "claim_none" THEN processed_failed + 1 ELSE processed_failed

\* a plain "return" after the claim, and the loop's except / finally, touch
\* no counter
FailedOnReturn(pc) == processed_failed

WorkerReturn ==
    /\ wpc \in ReturnedPcs
    /\ in_flight' = FinallyInFlight
    /\ wpc' = LoopAfter(wpc)
    /\ processed_failed' = FailedOnReturn(wpc)
    /\ NoEnqueue
    /\ UNCHANGED <<processed_success, retried, retry_attempts>>
    /\ UNCHANGED <<handed, flight_claims>>
    /\ UNCHANGED <<storeVars, listenerVars, sweepVars>>

WorkerNext ==
    \/ Dequeue
    \/ Claim
    \/ ClaimRaise
    \/ StageOk
    \/ StageRaise
    \/ MarkSuccess
    \/ MarkSuccessRaise
    \/ SuccessReturn
    \/ MarkFailed
    \/ MarkFailedRaise
    \/ WorkerReturn

\* ------------------------------------------------- RetryWorker.run_once
\* Two run_once calls can be open at once: the first sweep of the
\* background task (start()) and the explicit one of the lifespan.
EndOfSweep(s) == IF s = "task" THEN "sleep" ELSE "done"

\* pending sweep: the find at the server
PendingFind(s) ==
    /\ spc[s] = "pending_find"
    /\ LET found == FindOldest("pending") IN
        /\ cursor' = [cursor EXCEPT ![s] = found]
        /\ spc' = [spc EXCEPT ![s] =
                     IF found = <<>> THEN "failed_find" ELSE "pending_loop"]
    /\ NoEnqueue
    /\ UNCHANGED attempt_count
    /\ UNCHANGED <<storeVars, listenerVars, statVars, workerVars>>

\* "async for complaint in pending_cursor: await self.queue.enqueue(...)";
\* after the last document the failed find is issued
PendingLoop(s) ==
    /\ spc[s] = "pending_loop"
    /\ Enqueue(Head(cursor[s]))
    /\ cursor' = [cursor EXCEPT ![s] = Tail(cursor[s])]
    /\ spc' = [spc EXCEPT ![s] =
                 IF Tail(cursor[s]) = <<>> THEN "failed_find" ELSE "pending_loop"]
    /\ UNCHANGED attempt_count
    /\ UNCHANGED <<storeVars, listenerVars, statVars, workerVars>>

\* failed sweep: the find at the server
FailedFind(s) ==
    /\ spc[s] = "failed_find"
    /\ LET found == FindOldest("failed") IN
        /\ cursor' = [cursor EXCEPT ![s] = found]
        /\ spc' = [spc EXCEPT ![s] =
                     IF found = <<>> THEN EndOfSweep(s) ELSE "failed_loop"]
    /\ NoEnqueue
    /\ UNCHANGED attempt_count
    /\ UNCHANGED <<storeVars, listenerVars, statVars, workerVars>>

\* "if attempt_count >= self.settings.max_retry_attempts: continue"
\* faulty variant: off by one
RetryExhausted_Late(n) == n > max_retry_attempts

RetryExhausted(n) == n >= max_retry_attempts

\* one iteration up to the update_one being issued
FailedLoop(s) ==
    /\ spc[s] = "failed_loop"
    /\ LET n == retry_attempts[Head(cursor[s])] IN
        IF RetryExhausted(n)
        THEN /\ cursor' = [cursor EXCEPT ![s] = Tail(cursor[s])]
             /\ spc' = [spc EXCEPT ![s] =
                          IF Tail(cursor[s]) = <<>> THEN EndOfSweep(s)
                          ELSE "failed_loop"]
             /\ UNCHANGED attempt_count
        ELSE /\ attempt_count' = [attempt_count EXCEPT ![s] = n]
             /\ spc' = [spc EXCEPT ![s] = "flip"]
             /\ UNCHANGED cursor
    /\ NoEnqueue
    /\ UNCHANGED <<storeVars, listenerVars, statVars, workerVars>>

FlipFilter(d) == Matches(d, "failed")
FlipUpdate(d) == [d EXCEPT !.status = "pending", !.aiProcessed = FALSE]

\* update_one at the server; with modified_count = 0 the loop goes on
Flip(s) ==
    /\ spc[s] = "flip"
    /\ LET c == Head(cursor[s]) IN
        IF FlipFilter(doc[c])
        THEN /\ doc' = [doc EXCEPT ![c] = FlipUpdate(doc[c])]
             /\ claims_since_pending' = [claims_since_pending EXCEPT ![c] = 0]
             /\ spc' = [spc EXCEPT ![s] = "flipped"]
             /\ UNCHANGED <<cursor, attempt_count>>
        ELSE /\ UNCHANGED storeVars
             /\ cursor' = [cursor EXCEPT ![s] = Tail(cursor[s])]
             /\ attempt_count' = [attempt_count EXCEPT ![s] = 0]
             /\ spc' = [spc EXCEPT ![s] =
                          IF Tail(cursor[s]) = <<>> THEN EndOfSweep(s)
                          ELSE "failed_loop"]
    /\ NoEnqueue
    /\ UNCHANGED <<listenerVars, statVars, workerVars>>

\* "if result.modified_count == 1:" count the attempt and enqueue
\* faulty variant: the entry is dropped when the count reaches the cap
NextAttempt_ClearedAtCap(n) == IF n + 1 >= max_retry_attempts THEN 0 ELSE n + 1

NextAttempt(n) == n + 1

Flipped(s) ==
    /\ spc[s] = "flipped"
    /\ LET c == Head(cursor[s]) IN
        /\ retry_attempts' =
               [retry_attempts EXCEPT ![c] = NextAttempt(attempt_count[s])]
        /\ retried' = retried + 1
        /\ Enqueue(c)
    /\ cursor' = [cursor EXCEPT ![s] = Tail(cursor[s])]
    /\ attempt_count' = [attempt_count EXCEPT ![s] = 0]
    /\ spc' = [spc EXCEPT ![s] =
                 IF Tail(cursor[s]) = <<>> THEN EndOfSweep(s) ELSE "failed_loop"]
    /\ UNCHANGED <<processed_success, processed_failed>>
    /\ UNCHANGED <<storeVars, listenerVars, workerVars>>

\* RetryWorker._run: the interval has elapsed, the next sweep begins
SweepWake ==
    /\ spc["task"] = "sleep"
    /\ spc' = [spc EXCEPT !["task"] = "pending_find"]
    /\ NoEnqueue
    /\ UNCHANGED <<cursor, attempt_count>>
    /\ UNCHANGED <<storeVars, listenerVars, statVars, workerVars>>

SweepNext(s) ==
    \/ PendingFind(s)
    \/ PendingLoop(s)
    \/ FailedFind(s)
    \/ FailedLoop(s)
    \/ Flip(s)
    \/ Flipped(s)

\* ---------------------------------------------------------- specification
\* The lifespan starts the worker, the listener and the reconciler task and
\* then awaits one run_once of its own (main.py 73-76); `startup` is the
\* position of that call.
StartedWith(startup, replica, listener, kept) ==
    /\ doc = [c \in CIDs |-> NoDoc]
    /\ replica_set_enabled = replica
    /\ change_stream_running = FALSE
    /\ lpc = listener
    /\ events = <<>>
    /\ queue = <<>>
    /\ queued_ids = {}
    /\ in_flight = None
    /\ queue_enqueued = 0
    /\ processed_success = 0
    /\ processed_failed = 0
    /\ retried = 0
    /\ retry_attempts = [c \in CIDs |-> 0]
    /\ wpc = "idle"
    /\ spc = [s \in Sweepers |-> IF s = "task" THEN "pending_find" ELSE startup]
    /\ cursor = [s \in Sweepers |-> <<>>]
    /\ attempt_count = [s \in Sweepers |-> 0]
    /\ enq_ret = NoCall
    /\ tickets = <<>>
    /\ handed = 0
    /\ flight_claims = 0
    /\ ledger = kept
    /\ claims_since_pending = [c \in CIDs |-> 0]
    /\ lifespan = "serving"
    /\ stopping = {}
    /\ cancelling = {}
    /\ closed = {}

Started(startup, replica, listener) ==
    StartedWith(startup, replica, listener, NoLedger)

Boot(startup, replica, listener) ==
    /\ Started(startup, replica, listener)
    /\ args = NoArgs
    /\ ret = NoArgs

\* The service comes up on a collection with no complaint in it yet: the
\* lifespan's own run_once has found nothing and returned.
Init == \E replica \in BOOLEAN : Boot("done", replica, "start")

Next ==
    \/ \E c \in CIDs : Submit(c)
    \/ ListenerStart
    \/ ListenerEvent
    \/ WorkerNext
    \/ SweepWake
    \/ \E s \in Sweepers : SweepNext(s)

Spec == Init /\ [][Next]_vars

\* A standalone store (no replica set): the listener has logged that and
\* returned, complaints are announced by the reconciler alone.
InitStandalone == Boot("done", FALSE, "returned")

NextStandalone ==
    \/ \E c \in CIDs : Submit(c)
    \/ WorkerNext
    \/ SweepWake
    \/ \E s \in Sweepers : SweepNext(s)

SpecStandalone == InitStandalone /\ [][NextStandalone]_vars

\* The event loop runs every ready task, and every store call returns or
\* raises: the worker always takes its next step.
FairStandalone == SpecStandalone /\ WF_vars(WorkerNext)

\* RetryWorker._run wakes up after every interval and each store call of
\* run_once returns: the reconciler always takes its next step too.
FairReconciled ==
    /\ SpecStandalone
    /\ WF_vars(WorkerNext)
    /\ WF_vars(SweepWake \/ \E s \in Sweepers : SweepNext(s))

\* A replica set whose change stream can break at any time.
InitStream == Boot("done", TRUE, "start")

NextStream ==
    \/ Next
    \/ StreamError
    \/ Resubscribe

SpecStream == InitStream /\ [][NextStream]_vars

\* asyncio.sleep(5) returns: a listener in its back-off does re-subscribe
FairStream == SpecStream /\ WF_vars(Resubscribe)

\* The service is restarted on a collection that holds a backlog: the a
\* oldest complaints are in one unprocessed state (failed under the previous
\* process, whose retry_attempts map is gone, or pending), the next b - a in
\* the other, the rest are done.  Both run_once calls of the start-up are
\* about to issue their first find.
BacklogCases ==
    {<<0, MaxBacklog>>, <<1, MaxBacklog>>, <<MaxBacklog - 1, MaxBacklog>>,
     <<1, 2>>, <<2, 4>>}

BacklogDoc(a, b, failed_first) ==
    [c \in 1..MaxBacklog |->
        IF c > b THEN SuccessDoc(NewDoc)
        ELSE IF (c <= a) = failed_first THEN FailedDoc(NewDoc)
        ELSE NewDoc]

InitBacklog ==
    /\ \E ab \in BacklogCases, failed_first \in BOOLEAN :
          doc = BacklogDoc(ab[1], ab[2], failed_first)
    /\ replica_set_enabled = FALSE
    /\ change_stream_running = FALSE
    /\ lpc = "returned"
    /\ events = <<>>
    /\ queue = <<>>
    /\ queued_ids = {}
    /\ in_flight = None
    /\ queue_enqueued = 0
    /\ processed_success = 0
    /\ processed_failed = 0
    /\ retried = 0
    /\ retry_attempts = [c \in 1..MaxBacklog |-> 0]
    /\ wpc = "idle"
    /\ spc = [s \in Sweepers |-> "pending_find"]
    /\ cursor = [s \in Sweepers |-> <<>>]
    /\ attempt_count = [s \in Sweepers |-> 0]
    /\ enq_ret = NoCall
    /\ tickets = <<>>
    /\ handed = 0
    /\ flight_claims = 0
    /\ ledger = NoLedger
    /\ claims_since_pending = [c \in 1..MaxBacklog |-> 0]
    /\ lifespan = "serving"
    /\ stopping = {}
    /\ cancelling = {}
    /\ closed = {}
    /\ args = NoArgs
    /\ ret = NoArgs

\* The lifespan's run_once and the worker; the background task has not been
\* scheduled yet.
NextBacklog ==
    \/ WorkerNext
    \/ SweepNext("startup")

SpecBacklog == InitBacklog /\ [][NextBacklog]_vars

\* Every complaint carries an image URL that answers 404: the image stage
\* always takes the download-failure path; the store can still fail any of
\* the other steps.
Worker404 ==
    \/ Dequeue
    \/ Claim
    \/ ClaimRaise
    \/ (wpc # "image" /\ StageOk)
    \/ (wpc # "image" /\ StageRaise)
    \/ ImageUnavailable
    \/ MarkSuccess
    \/ MarkSuccessRaise
    \/ SuccessReturn
    \/ MarkFailed
    \/ MarkFailedRaise
    \/ WorkerReturn

Next404 ==
    \/ \E c \in CIDs : Submit(c)
    \/ Worker404
    \/ SweepWake
    \/ \E s \in Sweepers : SweepNext(s)

Spec404 == InitStandalone /\ [][Next404]_vars

\* The service is restarted (the retry_attempts map is empty) on a standalone
\* store that holds one complaint, failed under the previous process.  The
\* first sweep of the background task and the run_once of the lifespan
\* (main.py 75-76) are both about to issue their first find.
InitRestart ==
    /\ doc = [c \in CIDs |-> IF c = 1 THEN FailedDoc(NewDoc) ELSE NoDoc]
    /\ replica_set_enabled = FALSE
    /\ change_stream_running = FALSE
    /\ lpc = "returned"
    /\ events = <<>>
    /\ queue = <<>>
    /\ queued_ids = {}
    /\ in_flight = None
    /\ queue_enqueued = 0
    /\ processed_success = 0
    /\ processed_failed = 0
    /\ retried = 0
    /\ retry_attempts = [c \in CIDs |-> 0]
    /\ wpc = "idle"
    /\ spc = [s \in Sweepers |-> "pending_find"]
    /\ cursor = [s \in Sweepers |-> <<>>]
    /\ attempt_count = [s \in Sweepers |-> 0]
    /\ enq_ret = NoCall
    /\ tickets = <<>>
    /\ handed = 0
    /\ flight_claims = 0
    /\ ledger = NoLedger
    /\ claims_since_pending = [c \in CIDs |-> 0]
    /\ lifespan = "serving"
    /\ stopping = {}
    /\ cancelling = {}
    /\ closed = {}
    /\ args = NoArgs
    /\ ret = NoArgs

NextRestart ==
    \/ WorkerNext
    \/ SweepWake
    \/ \E s \in Sweepers : SweepNext(s)

SpecRestart == InitRestart /\ [][NextRestart]_vars

\* A collection in which the `older` oldest complaints have failed and used
\* up their retries (retry_attempts at the cap), and one younger complaint
\* has failed with retries left.  The lifespan's run_once is over, the
\* background task is about to sweep.
Youngest == retry_batch_size + 1
OlderExhausted == {0, 1, retry_batch_size - 1, retry_batch_size}

InitExhausted ==
    /\ \E older \in OlderExhausted, left \in 1..max_retry_attempts :
        /\ doc = [c \in 1..Youngest |->
                     IF c <= older \/ c = Youngest THEN FailedDoc(NewDoc)
                     ELSE NoDoc]
        /\ retry_attempts =
               [c \in 1..Youngest |->
                   IF c <= older THEN max_retry_attempts
                   ELSE IF c = Youngest THEN max_retry_attempts - left
                   ELSE 0]
    /\ replica_set_enabled = FALSE
    /\ change_stream_running = FALSE
    /\ lpc = "returned"
    /\ events = <<>>
    /\ queue = <<>>
    /\ queued_ids = {}
    /\ in_flight = None
    /\ queue_enqueued = 0
    /\ processed_success = 0
    /\ processed_failed = 0
    /\ retried = 0
    /\ wpc = "idle"
    /\ spc = [s \in Sweepers |-> IF s = "task" THEN "pending_find" ELSE "done"]
    /\ cursor = [s \in Sweepers |-> <<>>]
    /\ attempt_count = [s \in Sweepers |-> 0]
    /\ enq_ret = NoCall
    /\ tickets = <<>>
    /\ handed = 0
    /\ flight_claims = 0
    /\ ledger = NoLedger
    /\ claims_since_pending = [c \in 1..Youngest |-> 0]
    /\ lifespan = "serving"
    /\ stopping = {}
    /\ cancelling = {}
    /\ closed = {}
    /\ args = NoArgs
    /\ ret = NoArgs

NextExhausted ==
    \/ WorkerNext
    \/ SweepWake
    \/ SweepNext("task")

SpecExhausted == InitExhausted /\ [][NextExhausted]_vars

\* the worker and the reconciler always take their next step
FairExhausted ==
    /\ SpecExhausted
    /\ WF_vars(WorkerNext)
    /\ WF_vars(SweepWake \/ SweepNext("task"))

\* ------------------------------------------------------ lifespan: shutdown
\* main.py 87-98: the `finally` of the lifespan stops the reconciler, the
\* listener and the queue worker, one after the other, then closes the HTTP
\* session and the store client.  `lifespan` names the component whose
\* stop() / close() the lifespan is awaiting.
Tasks == {"retry_worker", "change_stream_listener", "processing_queue"}
Clients == {"image_downloader", "mongodb"}
ShutdownOrder == <<"retry_worker", "change_stream_listener",
                   "processing_queue", "image_downloader", "mongodb">>

\* where a task is: its own position variable
Position(t) ==
    IF t = "retry_worker" THEN spc["task"]
    ELSE IF t = "change_stream_listener" THEN lpc
    ELSE wpc

\* a task that is over: its coroutine returned, it was cancelled, or an
\* exception escaped it
Finished == {"returned", "cancelled", "crashed"}

\* a task runs its own code as long as no CancelledError waits for it
Runs(t) == t \notin cancelling

\* the awaits of run_once that go to the store
SweepStoreCalls == {"pending_find", "failed_find", "flip"}

\* RetryWorker._run awaits run_once with no handler around it
\* (retry_worker.py 40-41): a store error raised in the sweep of the
\* background task escapes _run, and the task is over.  An update_one that
\* raises was applied or not.
SweepRaise ==
    /\ spc["task"] \in SweepStoreCalls
    /\ \/ UNCHANGED storeVars
       \/ /\ spc["task"] = "flip"
          /\ FlipFilter(doc[Head(cursor["task"])])
          /\ doc' = [doc EXCEPT
                       ![Head(cursor["task"])] = FlipUpdate(doc[Head(cursor["task"])])]
          /\ claims_since_pending' =
                 [claims_since_pending EXCEPT ![Head(cursor["task"])] = 0]
    /\ spc' = [spc EXCEPT !["task"] = "crashed"]
    /\ cursor' = [cursor EXCEPT !["task"] = <<>>]
    /\ attempt_count' = [attempt_count EXCEPT !["task"] = 0]
    /\ NoEnqueue
    /\ UNCHANGED <<listenerVars, statVars, workerVars>>

\* stop(): "self._stopping.set(); self._task.cancel(); await self._task".
\* cancel() on a task that is over does nothing.
StopBegin(t) ==
    /\ stopping' = stopping \cup {t}
    /\ cancelling' = IF Position(t) \in Finished THEN cancelling
                     ELSE cancelling \cup {t}
    /\ lifespan' = t

\* "try: await self._task / except asyncio.CancelledError: pass": awaiting a
\* task that an exception ended re-raises that exception, which the handler
\* of stop() does not catch
StopOutcome(pos) == IF pos = "crashed" THEN "raised" ELSE "returned"

\* the application is asked to shut down: the first stop() runs up to its await
Shutdown ==
    /\ lifespan = "serving"
    /\ StopBegin(ShutdownOrder[1])
    /\ UNCHANGED closed
    /\ UNCHANGED <<queueVars, callVars, enq_ret, ledger>>
    /\ UNCHANGED <<storeVars, listenerVars, statVars, workerVars, sweepVars>>

\* The awaited task is over.  An exception out of stop() leaves the
\* `finally` of the lifespan at once; otherwise the next statement runs up
\* to its own await.
StopReturn ==
    /\ lifespan \in Tasks
    /\ Position(lifespan) \in Finished
    /\ LET i == CHOOSE j \in 1..Len(ShutdownOrder) : ShutdownOrder[j] = lifespan
           next == ShutdownOrder[i + 1]
       IN IF StopOutcome(Position(lifespan)) = "raised"
          THEN /\ lifespan' = "raised"
               /\ UNCHANGED <<stopping, cancelling>>
          ELSE IF next \in Tasks
          THEN StopBegin(next)
          ELSE /\ lifespan' = next
               /\ UNCHANGED <<stopping, cancelling>>
    /\ UNCHANGED closed
    /\ UNCHANGED <<queueVars, callVars, enq_ret, ledger>>
    /\ UNCHANGED <<storeVars, listenerVars, statVars, workerVars, sweepVars>>

\* "finally: self.runtime_stats.in_flight_complaint_id = None" runs when the
\* CancelledError leaves the try of the loop; a worker cancelled in
\* queue.get() is outside that try
\* faulty variant: the marker is cleared in an `else`, not a `finally`
CancelledInFlight_Kept(pc, cid) == cid

CancelledInFlight(pc, cid) == IF pc = "idle" THEN cid ELSE FinallyInFlight

\* The CancelledError is thrown into the worker at the await it is suspended
\* in.  `except Exception` (process_complaint, _run) does not catch it, so no
\* counter moves and no failure is written; a write that was on its way was
\* applied or not.
CancelledWorker ==
    /\ "processing_queue" \in cancelling
    /\ \/ UNCHANGED <<storeVars, flight_claims, ledger>>
       \/ /\ wpc = "claim"
          /\ ClaimFilter(doc[in_flight])
          /\ ClaimWrite(in_flight)
          /\ UNCHANGED ledger
       \/ /\ wpc = "mark_success"
          /\ doc' = [doc EXCEPT ![in_flight] = SuccessDoc(doc[in_flight])]
          /\ ledger' = Written(ledger)
          /\ UNCHANGED <<claims_since_pending, flight_claims>>
       \/ /\ wpc = "mark_failed"
          /\ doc' = [doc EXCEPT ![in_flight] = FailedDoc(doc[in_flight])]
          /\ UNCHANGED <<claims_since_pending, flight_claims, ledger>>
    /\ in_flight' = CancelledInFlight(wpc, in_flight)
    /\ wpc' = "cancelled"
    /\ cancelling' = cancelling \ {"processing_queue"}
    /\ UNCHANGED handed
    /\ UNCHANGED <<lifespan, stopping, closed>>
    /\ UNCHANGED <<queueVars, callVars, enq_ret>>
    /\ UNCHANGED <<listenerVars, statVars, sweepVars>>

\* "except asyncio.CancelledError: raise": the stream is closed by its
\* `async with`, the flag is left as it is; in the back-off sleep the
\* CancelledError leaves the handler it was raised in
CancelledListener ==
    /\ "change_stream_listener" \in cancelling
    /\ lpc' = "cancelled"
    /\ events' = <<>>
    /\ cancelling' = cancelling \ {"change_stream_listener"}
    /\ UNCHANGED <<replica_set_enabled, change_stream_running>>
    /\ UNCHANGED <<lifespan, stopping, closed>>
    /\ UNCHANGED <<queueVars, callVars, enq_ret, ledger>>
    /\ UNCHANGED <<storeVars, statVars, workerVars, sweepVars>>

\* In a sweep the CancelledError escapes run_once and _run.  In
\* "await asyncio.wait_for(self._stopping.wait(), ...)" the event was set
\* just before the cancel: wait_for raises CancelledError, or (before
\* Python 3.12) returns the result of the wait, and then the loop condition
\* ends _run.
CancelledReconciler ==
    /\ "retry_worker" \in cancelling
    /\ \/ UNCHANGED storeVars
       \/ /\ spc["task"] = "flip"
          /\ FlipFilter(doc[Head(cursor["task"])])
          /\ doc' = [doc EXCEPT
                       ![Head(cursor["task"])] = FlipUpdate(doc[Head(cursor["task"])])]
          /\ claims_since_pending' =
                 [claims_since_pending EXCEPT ![Head(cursor["task"])] = 0]
    /\ \/ spc' = [spc EXCEPT !["task"] = "cancelled"]
       \/ /\ spc["task"] = "sleep"
          /\ spc' = [spc EXCEPT !["task"] = "returned"]
    /\ cursor' = [cursor EXCEPT !["task"] = <<>>]
    /\ attempt_count' = [attempt_count EXCEPT !["task"] = 0]
    /\ cancelling' = cancelling \ {"retry_worker"}
    /\ UNCHANGED <<lifespan, stopping, closed>>
    /\ UNCHANGED <<queueVars, callVars, enq_ret, ledger>>
    /\ UNCHANGED <<listenerVars, statVars, workerVars>>

\* "await image_downloader.close()" (image_downloader.py 22-25)
CloseImageDownloader ==
    /\ lifespan = "image_downloader"
    /\ closed' = closed \cup {"image_downloader"}
    /\ lifespan' = "mongodb"
    /\ UNCHANGED <<stopping, cancelling>>
    /\ UNCHANGED <<queueVars, callVars, enq_ret, ledger>>
    /\ UNCHANGED <<storeVars, listenerVars, statVars, workerVars, sweepVars>>

\* "await mongodb.close()" (db.py 68-72); the `finally` is done
CloseMongo ==
    /\ lifespan = "mongodb"
    /\ closed' = closed \cup {"mongodb"}
    /\ lifespan' = "closed"
    /\ UNCHANGED <<stopping, cancelling>>
    /\ UNCHANGED <<queueVars, callVars, enq_ret, ledger>>
    /\ UNCHANGED <<storeVars, listenerVars, statVars, workerVars, sweepVars>>

\* The service runs on an empty collection (replica set or not, the stream
\* can break), a complaint arrives, and at any moment the service is shut
\* down.  One complaint takes every task through all of its positions.
InitShutdown == \E replica \in BOOLEAN : Boot("done", replica, "start")

NextShutdown ==
    \/ Submit(1)
    \/ Runs("change_stream_listener") /\ ListenerStart
    \/ Runs("change_stream_listener") /\ ListenerEvent
    \/ Runs("change_stream_listener") /\ StreamError
    \/ Runs("change_stream_listener") /\ Resubscribe
    \/ Runs("processing_queue") /\ WorkerNext
    \/ Runs("retry_worker") /\ SweepWake
    \/ Runs("retry_worker") /\ SweepNext("task")
    \/ Runs("retry_worker") /\ SweepRaise
    \/ Shutdown
    \/ StopReturn
    \/ CancelledWorker
    \/ CancelledListener
    \/ CancelledReconciler
    \/ CloseImageDownloader
    \/ CloseMongo

SpecShutdown == InitShutdown /\ [][NextShutdown]_vars

\* ------------------------------------------- one call, studied on its own
\* The queue machine has started on a standalone store and is at rest.
AtRest == Started("done", FALSE, "returned")

\* round(x, n) where x carries one more decimal digit than n: Python rounds
\* half to even.
Round(x) ==
    LET q == x \div 10
        r == x % 10
    IN IF r > 5 \/ (r = 5 /\ q % 2 = 1) THEN q + 1 ELSE q

Absent == -1          \* Python None where a number could stand

\* ------------------------------- AIProcessor._check_duplicate_from_embedding
\* Similarities are counted in 1e-7, recorded similarities in 1e-6; distances
\* in millimetres, recorded distances in centimetres.
MaxCompared == 3      \* documents the cursor yields in one call

duplicate_similarity_threshold == 9200000
duplicate_compare_limit == 50
DUPLICATE_MAX_DISTANCE_METERS == 300000

\* "category" as stored: missing, blank, or text in any case and padding
NoCategory == "<missing>"
Categories == {NoCategory, " ", "pothole", " Pothole", "GARBAGE"}

\* str(category or "").strip().lower()
CategoryFold(c) ==
    CASE c = NoCategory -> ""
      [] c = " " -> ""
      [] c = "pothole" -> "pothole"
      [] c = " Pothole" -> "pothole"
      [] c = "GARBAGE" -> "garbage"

\* "if not source_category or not other: return None"
_is_same_category(source_category, other_category) ==
    LET other == CategoryFold(other_category) IN
    IF source_category = "" \/ other = "" THEN "None"
    ELSE IF source_category = other THEN "True" ELSE "False"

\* A complaint as the duplicate scan sees it.  fingerprint / embedding stand
\* for the stored aiMeta value by the similarity it has to the image under
\* analysis (dHash: 1 - hamming/64; embedding: cosine), Absent when the field
\* is not stored; distance is the haversine distance to the complaint under
\* analysis, Absent when either has no coordinates.
Documents ==
    [id : CIDs, recent : BOOLEAN,
     fingerprint : {Absent, 9218750},
     embedding : {Absent, 9200000, 9200004},
     distance : {Absent, 299996, 300004},
     category : {NoCategory, " Pothole", "GARBAGE"}]

NoDocument == [id |-> None]

\* faulty variant: the complaint under analysis is not excluded
DuplicateFilter_Self(d, complaint_id) ==
    /\ d.recent
    /\ d.fingerprint # Absent \/ d.embedding # Absent

\* {"_id": {"$ne": complaint_id}, "createdAt": {"$gte": lookback_start},
\*  "$or": [imageFingerprint exists, embedding exists]}
DuplicateFilter(d, complaint_id) ==
    /\ d.id # complaint_id
    /\ d.recent
    /\ d.fingerprint # Absent \/ d.embedding # Absent

\* the fingerprint is preferred, then the embedding, else None
_duplicate_similarity(a, d) ==
    IF a.fingerprint /\ d.fingerprint # Absent THEN d.fingerprint
    ELSE IF a.embedding /\ d.embedding # Absent THEN d.embedding
    ELSE Absent

_duplicate_method(a, d) ==
    IF a.fingerprint /\ d.fingerprint # Absent THEN "dhash64"
    ELSE IF a.embedding /\ d.embedding # Absent THEN "mobilenet_cosine_legacy"
    ELSE "None"

DuplicateMatch(is_duplicate, similarity, matched, distance, category_match, method) ==
    [pc |-> "returned", is_duplicate |-> is_duplicate, similarity |-> similarity,
     matched |-> matched, matched_distance_meters |-> distance,
     category_match |-> category_match, method |-> method]

\* "if embedding is None and image_fingerprint is None: return ..."
DuplicateEarlyReturn ==
    /\ args.fn = "_check_duplicate_from_embedding"
    /\ ret.pc = "entry"
    /\ ~args.embedding /\ ~args.fingerprint
    /\ ret' = DuplicateMatch(FALSE, 0, NoDocument, Absent, "None", "None")
                @@ [candidates |-> {}]
    /\ UNCHANGED <<args, machineVars>>

\* the find is issued; the accumulators of the loop are initialised
DuplicateFind ==
    /\ args.fn = "_check_duplicate_from_embedding"
    /\ ret.pc = "entry"
    /\ args.embedding \/ args.fingerprint
    /\ ret' = [pc |-> "cursor", n |-> 0, max_similarity |-> 0,
               matched |-> NoDocument, matched_distance_meters |-> Absent,
               matched_category_ok |-> "None", matched_method |-> "None",
               candidates |-> {}]
    /\ UNCHANGED <<args, machineVars>>

\* What the scan has seen of a document with a similarity (history, not a
\* variable of the code): the similarity, and whether the document lies
\* within DUPLICATE_MAX_DISTANCE_METERS and has the complaint's category.
Candidate(a, d) ==
    [similarity |-> _duplicate_similarity(a, d),
     gates |-> /\ d.distance # Absent
               /\ d.distance <= DUPLICATE_MAX_DISTANCE_METERS
               /\ _is_same_category(CategoryFold(a.category), d.category) = "True"]

CandidatesAfter(seen, a, d) ==
    IF _duplicate_similarity(a, d) = Absent THEN seen
    ELSE seen \cup {Candidate(a, d)}

\* faulty variant: every document with a similarity replaces the match
Improves_Always(similarity, max_similarity) == TRUE

\* "if similarity > max_similarity:"
Improves(similarity, max_similarity) == similarity > max_similarity

\* one iteration of "async for document in cursor"
DuplicateCompare(d) ==
    /\ args.fn = "_check_duplicate_from_embedding"
    /\ ret.pc = "cursor"
    /\ ret.n < duplicate_compare_limit
    /\ ret.n < MaxCompared
    /\ DuplicateFilter(d, args.complaint_id)
    /\ LET similarity == _duplicate_similarity(args, d) IN
       ret' = IF similarity # Absent /\ Improves(similarity, ret.max_similarity)
              THEN [pc |-> "cursor", n |-> ret.n + 1,
                    max_similarity |-> similarity,
                    matched |-> d,
                    matched_distance_meters |-> d.distance,
                    matched_category_ok |->
                        _is_same_category(CategoryFold(args.category), d.category),
                    matched_method |-> _duplicate_method(args, d),
                    candidates |-> CandidatesAfter(ret.candidates, args, d)]
              ELSE [ret EXCEPT !.n = ret.n + 1,
                               !.candidates =
                                   CandidatesAfter(ret.candidates, args, d)]
    /\ UNCHANGED <<args, machineVars>>

\* the cursor is exhausted
DuplicateReturn ==
    /\ args.fn = "_check_duplicate_from_embedding"
    /\ ret.pc = "cursor"
    /\ LET duplicate_from_image ==
               ret.max_similarity > duplicate_similarity_threshold
           duplicate_in_same_area ==
               /\ ret.matched_distance_meters # Absent
               /\ ret.matched_distance_meters <= DUPLICATE_MAX_DISTANCE_METERS
           duplicate_same_category == ret.matched_category_ok = "True"
       IN ret' = DuplicateMatch(
                    duplicate_from_image /\ duplicate_in_same_area
                        /\ duplicate_same_category,
                    Round(ret.max_similarity),
                    ret.matched,
                    IF ret.matched_distance_meters = Absent THEN Absent
                    ELSE Round(ret.matched_distance_meters),
                    ret.matched_category_ok,
                    ret.matched_method)
                 @@ [candidates |-> ret.candidates]
    /\ UNCHANGED <<args, machineVars>>

InitDuplicate ==
    /\ AtRest
    /\ args \in [fn : {"_check_duplicate_from_embedding"},
                 complaint_id : {1},
                 category : Categories,
                 embedding : BOOLEAN, fingerprint : BOOLEAN]
    /\ ret = [pc |-> "entry"]

NextDuplicate ==
    \/ DuplicateEarlyReturn
    \/ DuplicateFind
    \/ \E d \in Documents : DuplicateCompare(d)
    \/ DuplicateReturn

SpecDuplicate == InitDuplicate /\ [][NextDuplicate]_vars

\* ------------------------------------ AIProcessor._validate_category_semantics
\* Labels, terms and phrases are strings; str.lower, re.sub, split, join and
\* the substring test `in` are computed character by character.
UpperCase == "ABCDEFGHIJKLMNOPQRSTUVWXYZ"
LowerCase == "abcdefghijklmnopqrstuvwxyz"
Digits == "0123456789"

At(s, i) == SubSeq(s, i, i)
Rest(s) == SubSeq(s, 2, Len(s))
Chars(s) == {At(s, i) : i \in 1..Len(s)}

\* the characters that [a-z0-9\s] keeps
KeptChars == Chars(LowerCase) \cup Chars(Digits) \cup {" "}

ToLower ==
    [c \in Chars(UpperCase) |->
        At(LowerCase, CHOOSE i \in 1..Len(UpperCase) : At(UpperCase, i) = c)]

LowerChar(c) == IF c \in DOMAIN ToLower THEN ToLower[c] ELSE c

\* str.lower()
RECURSIVE Lower(_)
Lower(s) == IF s = "" THEN "" ELSE LowerChar(At(s, 1)) \o Lower(Rest(s))

\* re.sub(r"[^a-z0-9\s]+", " ", text): a run of other characters becomes
\* blanks (one or several: split() makes no difference between them)
RECURSIVE Cleaned(_)
Cleaned(s) ==
    IF s = "" THEN ""
    ELSE (IF At(s, 1) \in KeptChars THEN At(s, 1) ELSE " ") \o Cleaned(Rest(s))

\* str.split(): the maximal runs of non-blank characters; cur is the run
\* being read
RECURSIVE SplitFrom(_, _)
SplitFrom(s, cur) ==
    IF s = "" THEN (IF cur = "" THEN <<>> ELSE <<cur>>)
    ELSE IF At(s, 1) = " "
         THEN (IF cur = "" THEN <<>> ELSE <<cur>>) \o SplitFrom(Rest(s), "")
         ELSE SplitFrom(Rest(s), cur \o At(s, 1))

Split(s) == SplitFrom(s, "")

\* " ".join(words)
RECURSIVE Join(_)
Join(words) ==
    IF words = <<>> THEN ""
    ELSE IF Len(words) = 1 THEN words[1]
    ELSE words[1] \o " " \o Join(Tail(words))

_normalize_phrase(text) == Join(Split(Cleaned(Lower(text))))

\* `term in phrase`
Contains(phrase, term) ==
    \E i \in 1..(Len(phrase) - Len(term) + 1) :
        SubSeq(phrase, i, i + Len(term) - 1) = term

\* faulty variant: a term has to be a whole word of the phrase
_match_terms_Words(terms, phrases) ==
    {t \in terms : \E i \in DOMAIN phrases :
        \E j \in DOMAIN Split(phrases[i]) : Split(phrases[i])[j] = t}

_match_terms(terms, phrases) ==
    {t \in terms : \E i \in DOMAIN phrases :
        Contains(phrases[i], Join(Split(Lower(t))))}

_token_pool(phrases) ==
    UNION {{Split(phrases[i])[j] : j \in DOMAIN Split(phrases[i])} :
              i \in DOMAIN phrases}

GENERIC_TRAFFIC_TERMS ==
    {"person", "car", "truck", "bus", "motorcycle", "bicycle", "scooter",
     "vehicle", "traffic", "street", "road"}

IndoorTerms == {"bedroom", "kitchen", "sofa", "laptop", "keyboard", "television"}

ProfileCategories ==
    {"garbage", "drainage", "water_leak", "pothole", "road_damage", "streetlight"}

SEMANTIC_PROFILES(category) ==
    CASE category = "garbage" ->
           [positive |-> {"garbage", "trash", "waste", "litter", "bin",
                          "dumpster", "refuse", "landfill"},
            negative |-> IndoorTerms]
      [] category = "drainage" ->
           [positive |-> {"drain", "sewer", "gutter", "manhole", "pipe",
                          "water", "flood", "hydrant"},
            negative |-> IndoorTerms]
      [] category = "water_leak" ->
           [positive |-> {"leak", "pipe", "water", "flood", "hydrant",
                          "valve", "tap"},
            negative |-> IndoorTerms]
      [] category = "pothole" ->
           [positive |-> {"pothole", "road", "street", "asphalt", "pavement",
                          "crack", "hole"},
            negative |-> IndoorTerms]
      [] category = "road_damage" ->
           [positive |-> {"road", "street", "asphalt", "pavement", "crack",
                          "damage", "hole"},
            negative |-> IndoorTerms]
      [] category = "streetlight" ->
           [positive |-> {"traffic light", "streetlight", "street lamp",
                          "lamp post", "lamppost"},
            negative |-> IndoorTerms]

Detection(label, confidence) == [label |-> label, confidence |-> confidence]

MobileNetClassification(a, b, c) == [label |-> a, top_labels |-> <<a, b, c>>]

NoProfile == [positive |-> {}, negative |-> {}]

\* faulty variant: a category without profile is checked as garbage
Profile_Default(category) ==
    IF category \in ProfileCategories THEN SEMANTIC_PROFILES(category)
    ELSE SEMANTIC_PROFILES("garbage")

\* SEMANTIC_PROFILES.get(category)
Profile(category) ==
    IF category \in ProfileCategories THEN SEMANTIC_PROFILES(category)
    ELSE NoProfile

\* str.strip()
RECURSIVE StripLeft(_)
StripLeft(s) ==
    IF s # "" /\ At(s, 1) = " " THEN StripLeft(Rest(s)) ELSE s

RECURSIVE StripRight(_)
StripRight(s) ==
    IF s # "" /\ At(s, Len(s)) = " " THEN StripRight(SubSeq(s, 1, Len(s) - 1))
    ELSE s

Strip(s) == StripLeft(StripRight(s))

yolo_min_confidence_for_severity == 40   \* confidences in hundredths

NoResult == [label |-> "<none>", top_labels |-> <<>>]

\* the leading top_labels[:3]
FirstThree(labels) == IF Len(labels) <= 3 THEN labels ELSE SubSeq(labels, 1, 3)

RECURSIVE SelectNonEmpty(_)
SelectNonEmpty(q) ==
    IF q = <<>> THEN <<>>
    ELSE (IF q[1] = "" THEN <<>> ELSE <<q[1]>>) \o SelectNonEmpty(Tail(q))

RECURSIVE ConfidentLabels(_)
ConfidentLabels(detections) ==
    IF detections = <<>> THEN <<>>
    ELSE (IF detections[1].confidence >= yolo_min_confidence_for_severity
          THEN <<Lower(detections[1].label)>> ELSE <<>>)
         \o ConfidentLabels(Tail(detections))

\* lines 476-489
Phrases(yolo_detections, mobilenet_result) ==
    LET phrases ==
            ConfidentLabels(yolo_detections)
            \o (IF mobilenet_result = NoResult THEN <<>>
                ELSE <<Lower(mobilenet_result.label)>>
                     \o [i \in DOMAIN FirstThree(mobilenet_result.top_labels) |->
                            Lower(FirstThree(mobilenet_result.top_labels)[i])])
        kept == SelectNonEmpty(phrases)
    IN SelectNonEmpty([i \in DOMAIN kept |-> _normalize_phrase(kept[i])])

\* the complaint's category is str(complaint.get("category") or "")
\* .strip().lower(); the note is given by its head, without the list of the
\* terms hit
_validate_category_semantics(complaint_category, yolo_detections, mobilenet_result) ==
    LET category == Lower(Strip(complaint_category))
        profile == Profile(category)
        normalized_phrases == Phrases(yolo_detections, mobilenet_result)
        token_pool == _token_pool(normalized_phrases)
    IN IF profile = NoProfile
       THEN [match |-> "None", note |-> "category_profile_missing"]
       ELSE IF normalized_phrases = <<>>
       THEN [match |-> "None", note |-> "no_semantic_signals"]
       ELSE IF _match_terms(profile.positive, normalized_phrases) # {}
       THEN [match |-> "True", note |-> "positive"]
       ELSE IF token_pool # {} /\ token_pool \subseteq GENERIC_TRAFFIC_TERMS
       THEN [match |-> "None", note |-> "generic_only"]
       ELSE IF /\ _match_terms(profile.negative, normalized_phrases) # {}
               /\ Len(normalized_phrases) >= 2
       THEN [match |-> "False", note |-> "negative"]
       ELSE [match |-> "None", note |-> "insufficient_semantic_signal"]

\* one call of _validate_category_semantics
MaxDetections == 2    \* detections in the list handed to the validation

SemanticCategories == {"garbage", " Pothole", "STREETLIGHT", "other", ""}

Detections ==
    {Detection("car", 90), Detection("road", 40), Detection("laptop", 40),
     Detection("laptop", 39), Detection("Traffic Light", 55)}

SemanticClassifications ==
    {NoResult,
     MobileNetClassification("laptop", "studio_couch", "television"),
     MobileNetClassification("ashcan", "garbage_truck", "cab"),
     MobileNetClassification("cab", "minivan", "manhole_cover")}

Validate ==
    /\ args.fn = "_validate_category_semantics"
    /\ ret.pc = "entry"
    /\ LET r == _validate_category_semantics(
                    args.category, args.yolo_detections, args.mobilenet_result)
       IN ret' = [pc |-> "returned", match |-> r.match, note |-> r.note]
    /\ UNCHANGED <<args, machineVars>>

InitSemantics ==
    /\ AtRest
    /\ \E n \in 0..MaxDetections :
          args \in [fn : {"_validate_category_semantics"},
                    category : SemanticCategories,
                    yolo_detections : [1..n -> Detections],
                    mobilenet_result : SemanticClassifications]
    /\ ret = [pc |-> "entry"]

SpecSemantics == InitSemantics /\ [][Validate]_vars

\* ------------------------------------------- AIProcessor.process_complaint
\* The try block of process_complaint for one claimed complaint, stage by
\* stage, with the values the stages hand on.  Scores are in hundredths.
\* what the priority engine hands to _apply_rules
BasePriorities ==
    {[priority_score |-> 0, priority_level |-> "low", reason |-> "Text 0.0"],
     [priority_score |-> 450, priority_level |-> "medium", reason |-> "Text 4.5"],
     [priority_score |-> 1200, priority_level |-> "high", reason |-> "Text 6.0 x2.0"]}

Classifications ==
    {MobileNetClassification("laptop", "studio_couch", "television"),
     MobileNetClassification("ashcan", "garbage_truck", "cab"),
     MobileNetClassification("cab", "minivan", "pickup")}

DetectionLists ==
    {<<>>, <<Detection("car", 90)>>,
     <<Detection("laptop", 85), Detection("keyboard", 45)>>}

ImageContext(embedding, image_fingerprint, yolo_detections, mobilenet_result, semantic_category_match, semantic_fallback_used, semantic_note) ==
    [embedding |-> embedding, image_fingerprint |-> image_fingerprint,
     yolo_detections |-> yolo_detections, mobilenet_result |-> mobilenet_result,
     semantic_category_match |-> semantic_category_match,
     semantic_fallback_used |-> semantic_fallback_used,
     semantic_note |-> semantic_note]

\* lines 168-176 and 188-196
EmptyContext(note) == ImageContext(FALSE, FALSE, <<>>, NoResult, "None", FALSE, note)

\* faulty variant: an undecided match counts as a mismatch
SemanticFallbackUsed_NotTrue(semantic_match) == semantic_match # "True"

\* "semantic_fallback_used=semantic_match is False"
SemanticFallbackUsed(semantic_match) == semantic_match = "False"

\* faulty variant: a duplicate keeps the base priority
_apply_rules_KeepsBase(base_priority, duplicate_match, image_context) ==
    [priority_score |-> base_priority.priority_score,
     priority_level |-> base_priority.priority_level,
     reason |-> IF duplicate_match.is_duplicate THEN "Duplicate complaint"
                ELSE base_priority.reason]

_apply_rules(base_priority, duplicate_match, image_context) ==
    IF duplicate_match.is_duplicate
    THEN [priority_score |-> 0, priority_level |-> "low",
          reason |-> "Duplicate complaint"]
    ELSE [priority_score |-> base_priority.priority_score,
          priority_level |-> base_priority.priority_level,
          reason |-> IF image_context.semantic_fallback_used
                     THEN base_priority.reason
                          \o "; Image semantic mismatch fallback applied ("
                          \o image_context.semantic_note \o ")"
                     ELSE base_priority.reason]

_build_ai_meta(duplicate_match, image_context) ==
    [isAIDuplicate |-> duplicate_match.is_duplicate,
     duplicateMethod |-> duplicate_match.method,
     imageFingerprint |-> image_context.image_fingerprint,
     mobilenetTopLabel |-> image_context.mobilenet_result.label,
     semanticCategoryMatch |-> image_context.semantic_category_match,
     semanticFallbackUsed |-> image_context.semantic_fallback_used,
     semanticNote |-> image_context.semantic_note]

\* the $set of _mark_success
SuccessWrite(result, ai_meta) ==
    [score |-> result.priority_score, level |-> result.priority_level,
     reason |-> result.reason, aiProcessed |-> TRUE,
     aiProcessingStatus |-> "done", aiMeta |-> ai_meta]

\* the $set of _mark_failed
FailedWrite ==
    [aiProcessed |-> FALSE, aiProcessingStatus |-> "failed"]

NoWrite == [aiProcessingStatus |-> "processing"]

NoPriority == [priority_score |-> Absent]
NoMatch == [is_duplicate |-> FALSE, method |-> "<not run>"]

\* faulty variant: the image is analysed first, the priority engine is not
\* asked yet
ItemEntry_AnalyzeFirst ==
    [pc |-> "analyze", base_priority |-> NoPriority, invoked |-> {},
     raised |-> {}, embedding |-> FALSE, image_fingerprint |-> FALSE,
     mobilenet_result |-> NoResult,
     image_context |-> EmptyContext("<not run>"),
     duplicate_match |-> NoMatch, scanned |-> FALSE, written |-> NoWrite]

ItemEntry ==
    [pc |-> "compute", base_priority |-> NoPriority, invoked |-> {},
     raised |-> {}, embedding |-> FALSE, image_fingerprint |-> FALSE,
     mobilenet_result |-> NoResult,
     image_context |-> EmptyContext("<not run>"),
     duplicate_match |-> NoMatch, scanned |-> FALSE, written |-> NoWrite]

Item == args.fn = "process_complaint"

Step(r) == ret' = r /\ UNCHANGED <<args, machineVars>>

\* "base_priority = await self.priority_engine.compute(complaint)"
ItemCompute ==
    /\ Item /\ ret.pc = "compute"
    /\ \E b \in BasePriorities :
          Step([ret EXCEPT !.pc = "analyze", !.base_priority = b])

ItemComputeRaise ==
    /\ Item /\ ret.pc = "compute"
    /\ Step([ret EXCEPT !.pc = "except", !.raised = {"compute"}])

\* "if not image_url: return ImageContext(... semantic_note="no_image")"
ItemNoImage ==
    /\ Item /\ ret.pc = "analyze"
    /\ ~args.image_url
    /\ Step([ret EXCEPT !.pc = "duplicate",
                        !.image_context = EmptyContext("no_image")])

\* the download returns an image; its fingerprint is computed
ItemDownload ==
    /\ Item /\ ret.pc = "analyze"
    /\ args.image_url
    /\ Step([ret EXCEPT !.pc = "embedding", !.image_fingerprint = TRUE])

\* the download (or the decoding inside it) raises: logged, image stays None
ItemDownloadRaise ==
    /\ Item /\ ret.pc = "analyze"
    /\ args.image_url
    /\ Step([ret EXCEPT !.pc = "duplicate",
                        !.raised = @ \cup {"download"},
                        !.image_context = EmptyContext("image_unavailable")])

\* faulty variant: the error of an inference stage leaves _analyze_image
OnInferenceError_Propagates(next) == "except"

\* "except Exception as exc: logger.warning(...)": the next statement is run
OnInferenceError(next) == next

ItemEmbedding ==
    /\ Item /\ ret.pc = "embedding"
    /\ Step([ret EXCEPT !.pc = "classify", !.invoked = @ \cup {"embedding"},
                        !.embedding = TRUE])

ItemEmbeddingRaise ==
    /\ Item /\ ret.pc = "embedding"
    /\ Step([ret EXCEPT !.pc = OnInferenceError("classify"),
                        !.invoked = @ \cup {"embedding"},
                        !.raised = @ \cup {"embedding"}])

ItemClassify ==
    /\ Item /\ ret.pc = "classify"
    /\ \E m \in Classifications :
          Step([ret EXCEPT !.pc = "detect", !.invoked = @ \cup {"classification"},
                           !.mobilenet_result = m])

ItemClassifyRaise ==
    /\ Item /\ ret.pc = "classify"
    /\ Step([ret EXCEPT !.pc = OnInferenceError("detect"),
                        !.invoked = @ \cup {"classification"},
                        !.raised = @ \cup {"classification"}])

\* what follows the detection: _validate_category_semantics and the return
Analyzed(r, detections) ==
    LET semantic == _validate_category_semantics(
                        args.category, detections, r.mobilenet_result)
    IN ImageContext(r.embedding, r.image_fingerprint, detections,
                    r.mobilenet_result, semantic.match,
                    SemanticFallbackUsed(semantic.match), semantic.note)

ItemDetect ==
    /\ Item /\ ret.pc = "detect"
    /\ \E detections \in DetectionLists :
          Step([ret EXCEPT !.pc = "duplicate", !.invoked = @ \cup {"detection"},
                           !.image_context = Analyzed(ret, detections)])

ItemDetectRaise ==
    /\ Item /\ ret.pc = "detect"
    /\ Step([ret EXCEPT !.pc = OnInferenceError("duplicate"),
                        !.invoked = @ \cup {"detection"},
                        !.raised = @ \cup {"detection"},
                        !.image_context = Analyzed(ret, <<>>)])

\* faulty variant: the scan is run whatever the image context holds
ScanSkipped_Never(embedding, image_fingerprint) == FALSE

\* "if embedding is None and image_fingerprint is None: return ..."
ScanSkipped(embedding, image_fingerprint) == ~embedding /\ ~image_fingerprint

\* what a scan can return
ScanResults ==
    {DuplicateMatch(FALSE, 0, NoDocument, Absent, "None", "None"),
     DuplicateMatch(TRUE, 953125, [id |-> 2], 1250, "True", "dhash64"),
     DuplicateMatch(FALSE, 953125, [id |-> 2], 1250, "False", "dhash64")}

ItemDuplicateSkipped ==
    /\ Item /\ ret.pc = "duplicate"
    /\ ScanSkipped(ret.image_context.embedding, ret.image_context.image_fingerprint)
    /\ Step([ret EXCEPT !.pc = "write",
                        !.duplicate_match =
                            DuplicateMatch(FALSE, 0, NoDocument, Absent, "None", "None")])

ItemDuplicateScan ==
    /\ Item /\ ret.pc = "duplicate"
    /\ ~ScanSkipped(ret.image_context.embedding, ret.image_context.image_fingerprint)
    /\ \E m \in ScanResults :
          Step([ret EXCEPT !.pc = "write", !.scanned = TRUE,
                           !.duplicate_match = m])

\* the cursor of the scan raises
ItemDuplicateRaise ==
    /\ Item /\ ret.pc = "duplicate"
    /\ ~ScanSkipped(ret.image_context.embedding, ret.image_context.image_fingerprint)
    /\ Step([ret EXCEPT !.pc = "except", !.scanned = TRUE,
                        !.raised = @ \cup {"duplicate"}])

\* _apply_rules, _build_ai_meta, _mark_success
ItemMarkSuccess ==
    /\ Item /\ ret.pc = "write"
    /\ Step([ret EXCEPT !.pc = "done",
                !.written = SuccessWrite(
                    _apply_rules(ret.base_priority, ret.duplicate_match,
                                 ret.image_context),
                    _build_ai_meta(ret.duplicate_match, ret.image_context))])

ItemMarkSuccessRaise ==
    /\ Item /\ ret.pc = "write"
    /\ Step([ret EXCEPT !.pc = "except", !.raised = @ \cup {"mark_success"}])

\* "except Exception as exc: ... await self._mark_failed(...)"
ItemMarkFailed ==
    /\ Item /\ ret.pc = "except"
    /\ Step([ret EXCEPT !.pc = "failed", !.written = FailedWrite])

InitItem ==
    /\ AtRest
    /\ args \in [fn : {"process_complaint"},
                 category : {"garbage", "pothole", ""},
                 image_url : BOOLEAN]
    /\ ret = ItemEntry

NextItem ==
    \/ ItemCompute
    \/ ItemComputeRaise
    \/ ItemNoImage
    \/ ItemDownload
    \/ ItemDownloadRaise
    \/ ItemEmbedding
    \/ ItemEmbeddingRaise
    \/ ItemClassify
    \/ ItemClassifyRaise
    \/ ItemDetect
    \/ ItemDetectRaise
    \/ ItemDuplicateSkipped
    \/ ItemDuplicateScan
    \/ ItemDuplicateRaise
    \/ ItemMarkSuccess
    \/ ItemMarkSuccessRaise
    \/ ItemMarkFailed

SpecItem == InitItem /\ [][NextItem]_vars

\* ------------------------------------------ PriorityEngine._compose_result
\* Severity and boosts are counted in thousandths, the rounded priority score
\* in hundredths.
Min(a, b) == IF a <= b THEN a ELSE b
Max(a, b) == IF a >= b THEN a ELSE b

\* "if score < 4: low; if score < 7: medium; high"
_map_level(score) ==
    IF score < 400 THEN "low"
    ELSE IF score < 700 THEN "medium"
    ELSE "high"

\* round(min(10.0, max(0.0, severity_score + location_boost + time_boost)), 2)
PriorityScore(severity_score, location_boost, time_boost) ==
    Round(Min(10000, Max(0, severity_score + 1000 * location_boost
                                           + 1000 * time_boost)))

\* _calculate_severity: 1.0 without detections, else ten times the mean
\* confidence (at least yolo_min_confidence_for_severity), at most 10.0;
\* apply_severity_reduction scales it down
SeverityScores ==
    {0, 1000, 1995, 2000, 2500, 2994, 2995, 2996, 3000, 3004, 3005, 3500, 3994,
     3995, 4000, 4005, 4500, 5000, 5995, 6000, 6004, 6005, 6995, 7000, 8500,
     9999, 10000}

Compose ==
    /\ args.fn = "_compose_result"
    /\ ret.pc = "entry"
    /\ LET priority_score ==
               PriorityScore(args.severity_score, args.location_boost,
                             args.time_boost)
       IN ret' = [pc |-> "returned", priority_score |-> priority_score,
                  priority_level |-> _map_level(priority_score)]
    /\ UNCHANGED <<args, machineVars>>

InitPriority ==
    /\ AtRest
    /\ args \in [fn : {"_compose_result"},
                 severity_score : SeverityScores,
                 location_boost : {0, 1},
                 time_boost : 0..3]
    /\ ret = [pc |-> "entry"]

SpecPriority == InitPriority /\ [][Compose]_vars

\* ---------------------------------------------------- GeoMultiplier.resolve
\* Coordinates are written as JSON gives them; float() accepts the numeric
\* ones.  Every point of the model lies on one meridian and a latitude is
\* given in metres along it, so that the great-circle distance of two
\* points is the difference of their latitudes.
MaxLocations == 2     \* documents in sensitive_locations
GEO_RADIUS_METERS == 2000

Float == [s \in {"0", "2000", "2001"} |->
            IF s = "0" THEN 0 ELSE IF s = "2000" THEN 2000 ELSE 2001]

\* None is the empty tuple
_extract_coordinates(document) ==
    IF ~document.location.dict THEN <<>>
    ELSE IF Len(document.location.coordinates) # 2 THEN <<>>
    ELSE IF \E i \in 1..2 : document.location.coordinates[i] \notin DOMAIN Float
    THEN <<>>
    ELSE <<Float[document.location.coordinates[1]],
           Float[document.location.coordinates[2]]>>

_haversine_meters(lng1, lat1, lng2, lat2) ==
    IF lat2 >= lat1 THEN lat2 - lat1 ELSE lat1 - lat2

\* faulty variant: the hospital rule is tested before the school rule
_rules_HospitalFirst ==
    <<[location_type |-> "hospital", multiplier |-> 14,
       keywords |-> {"hospital", "clinic", "medical"}],
      [location_type |-> "school", multiplier |-> 15, keywords |-> {"school"}],
      [location_type |-> "metro", multiplier |-> 12,
       keywords |-> {"metro", "subway", "station"}]>>

\* self._rules, the multipliers in tenths
_rules ==
    <<[location_type |-> "school", multiplier |-> 15, keywords |-> {"school"}],
      [location_type |-> "hospital", multiplier |-> 14,
       keywords |-> {"hospital", "clinic", "medical"}],
      [location_type |-> "metro", multiplier |-> 12,
       keywords |-> {"metro", "subway", "station"}]>>

\* the text fields that are strings, lower-cased and joined by blanks (a
\* field that is absent is the empty string here: it adds no keyword)
_matches_keywords(document, keywords) ==
    LET joined == Join(SelectNonEmpty(<<Lower(document.type),
                                        Lower(document.name),
                                        Lower(document.category)>>))
    IN \E keyword \in keywords : Contains(joined, keyword)

_fallback_scan(lng, lat, keywords) ==
    \E document \in args.sensitive_locations :
        /\ _matches_keywords(document, keywords)
        /\ _extract_coordinates(document) # <<>>
        /\ _haversine_meters(lng, lat, _extract_coordinates(document)[1],
                             _extract_coordinates(document)[2])
               <= GEO_RADIUS_METERS

\* find_one({"location": {"$nearSphere": ..., "$maxDistance": 2000},
\* "$or": [{field: {"$regex": keyword, "$options": "i"}} ...]}): only a
\* document with a point as location is near anything
NearSphereQuery(lng, lat, keywords) ==
    \E document \in args.sensitive_locations :
        /\ _extract_coordinates(document) # <<>>
        /\ _haversine_meters(lng, lat, _extract_coordinates(document)[1],
                             _extract_coordinates(document)[2])
               <= GEO_RADIUS_METERS
        /\ \E keyword \in keywords :
              \/ Contains(Lower(document.type), keyword)
              \/ Contains(Lower(document.name), keyword)
              \/ Contains(Lower(document.category), keyword)

\* the query is used when the collection has a geo index and the query does
\* not raise; every other path ends in the scan
_is_near_location_type(lng, lat, keywords, raises) ==
    IF args.geo_query_supported /\ ~raises
    THEN NearSphereQuery(lng, lat, keywords)
    ELSE _fallback_scan(lng, lat, keywords)

GeoMultiplierResult(multiplier, matched_type) ==
    [pc |-> "returned", multiplier |-> multiplier, matched_type |-> matched_type]

\* "if coordinates is None: return GeoMultiplierResult(1.0, 'none')"
ResolveNoCoordinates ==
    /\ args.fn = "resolve"
    /\ ret.pc = "entry"
    /\ _extract_coordinates(args.complaint) = <<>>
    /\ Step(GeoMultiplierResult(10, "none"))

ResolveCoordinates ==
    /\ args.fn = "resolve"
    /\ ret.pc = "entry"
    /\ _extract_coordinates(args.complaint) # <<>>
    /\ Step([pc |-> "rule", i |-> 1])

\* one turn of "for location_type, multiplier, keywords in self._rules"
ResolveRule ==
    /\ args.fn = "resolve"
    /\ ret.pc = "rule"
    /\ \E raises \in BOOLEAN :
        LET coordinates == _extract_coordinates(args.complaint)
            rule == _rules[ret.i]
        IN IF _is_near_location_type(coordinates[1], coordinates[2],
                                     rule.keywords, raises)
           THEN Step(GeoMultiplierResult(rule.multiplier, rule.location_type))
           ELSE IF ret.i = Len(_rules)
           THEN Step(GeoMultiplierResult(10, "none"))
           ELSE Step([pc |-> "rule", i |-> ret.i + 1])

Point(lat) == [dict |-> TRUE, coordinates |-> <<"0", lat>>]

\* no location, a list of one number, a latitude that is no number, a point
ComplaintLocations ==
    {[dict |-> FALSE, coordinates |-> <<>>],
     [dict |-> TRUE, coordinates |-> <<"0">>],
     [dict |-> TRUE, coordinates |-> <<"0", "north">>],
     Point("0")}

SensitiveLocations ==
    {[type |-> tnc[1], name |-> tnc[2], category |-> tnc[3], location |-> l] :
        tnc \in {<<"School", "", "">>,
                 <<"", "City Medical Centre", "">>,
                 <<"transit", "Central", "Metro">>,
                 <<"park", "Green", "">>},
        l \in {Point("2000"), Point("2001"),
               [dict |-> TRUE, coordinates |-> <<"0", "north">>]}}

InitResolve ==
    /\ AtRest
    /\ \E location \in ComplaintLocations, supported \in BOOLEAN :
       \E documents \in {D \in SUBSET SensitiveLocations :
                            Cardinality(D) <= MaxLocations} :
          args = [fn |-> "resolve",
                  complaint |-> [location |-> location],
                  sensitive_locations |-> documents,
                  geo_query_supported |-> supported]
    /\ ret = [pc |-> "entry"]

NextResolve ==
    \/ ResolveNoCoordinates
    \/ ResolveCoordinates
    \/ ResolveRule

SpecResolve == InitResolve /\ [][NextResolve]_vars

\* ---------------------------------------------------------- MongoDB.connect
\* A URI is the string of the configuration.  None of the URIs of the model
\* needs percent-encoding, which parse_qsl and urlencode would undo and redo.
\* str.find(c) + 1
IndexOf(s, c) ==
    IF \A i \in 1..Len(s) : At(s, i) # c THEN 0
    ELSE CHOOSE i \in 1..Len(s) :
             At(s, i) = c /\ \A j \in 1..(i - 1) : At(s, j) # c

Before(s, c) == IF IndexOf(s, c) = 0 THEN s ELSE SubSeq(s, 1, IndexOf(s, c) - 1)
After(s, c) == IF IndexOf(s, c) = 0 THEN "" ELSE SubSeq(s, IndexOf(s, c) + 1, Len(s))

\* urlsplit: what stands before the query, the query, the fragment
urlsplit(uri) ==
    [base |-> Before(Before(uri, "#"), "?"),
     query |-> After(Before(uri, "#"), "?"),
     fragment |-> After(uri, "#")]

\* parse_qsl(query, keep_blank_values=True): the pairs between "&", each cut
\* at its first "="
RECURSIVE parse_qsl(_)
parse_qsl(query) ==
    IF query = "" THEN <<>>
    ELSE LET item == Before(query, "&") IN
         (IF item = "" THEN <<>> ELSE <<<<Before(item, "=") , After(item, "=")>>>>)
             \o parse_qsl(After(query, "&"))

RECURSIVE urlencode(_)
urlencode(items) ==
    IF items = <<>> THEN ""
    ELSE items[1][1] \o "=" \o items[1][2]
             \o (IF Len(items) = 1 THEN "" ELSE "&" \o urlencode(Tail(items)))

urlunsplit(base, query, fragment) ==
    base \o (IF query = "" THEN "" ELSE "?" \o query)
         \o (IF fragment = "" THEN "" ELSE "#" \o fragment)

HasKey(items, key) == \E i \in DOMAIN items : Lower(items[i][1]) = key

_has_replica_set_param(uri) == HasKey(parse_qsl(urlsplit(uri).query), "replicaset")

RECURSIVE WithoutKey(_, _)
WithoutKey(items, key) ==
    IF items = <<>> THEN <<>>
    ELSE (IF Lower(items[1][1]) = key THEN <<>> ELSE <<items[1]>>)
             \o WithoutKey(Tail(items), key)

_to_standalone_uri(uri) ==
    LET parsed == urlsplit(uri)
        filtered == WithoutKey(parse_qsl(parsed.query), "replicaset")
        direct == IF HasKey(filtered, "directconnection") THEN filtered
                  ELSE Append(filtered, <<"directConnection", "true">>)
    IN urlunsplit(parsed.base, urlencode(direct), parsed.fragment)

NoClient == ""

\* the object while connect() runs: the client's URI, active_mongo_uri, the
\* flag, whether the collection handles are set; `pinged`, `answered` and
\* `setName` keep what went over the wire
Connecting(pc, client, active, replica, handles, pinged, answered) ==
    [pc |-> pc, client |-> client, active_mongo_uri |-> active,
     replica_set_enabled |-> replica, complaints |-> handles,
     pinged |-> pinged, answered |-> answered, setName |-> ""]

Connect == args.fn = "connect"

\* lines 24-45: the first ping answers, times out in server selection, or
\* fails otherwise; on a timeout the fallback is prepared or the error leaves
ConnectPing ==
    /\ Connect /\ ret.pc = "entry"
    /\ \E outcome \in {"ok", "ServerSelectionTimeoutError", "OperationFailure"} :
        LET uri == args.mongo_uri
            pinged == <<uri>>
        IN IF outcome = "ok"
           THEN Step(Connecting("hello", uri, uri, FALSE, FALSE, pinged, TRUE))
           ELSE IF \/ outcome # "ServerSelectionTimeoutError"
                   \/ ~args.mongo_allow_standalone_fallback
                   \/ ~_has_replica_set_param(uri)
           THEN Step(Connecting("raised", uri, uri, FALSE, FALSE, pinged, FALSE))
           ELSE Step(Connecting("fallback_ping", _to_standalone_uri(uri),
                                _to_standalone_uri(uri), FALSE, FALSE, pinged,
                                FALSE))

\* line 45: the second ping is outside any handler
ConnectFallbackPing ==
    /\ Connect /\ ret.pc = "fallback_ping"
    /\ \E ok \in BOOLEAN :
        Step([ret EXCEPT !.pc = IF ok THEN "hello" ELSE "raised",
                         !.pinged = Append(ret.pinged, ret.client),
                         !.answered = ok])

\* lines 47-58: hello, the flag, the handles
ConnectHello ==
    /\ Connect /\ ret.pc = "hello"
    /\ \/ Step([ret EXCEPT !.pc = "raised"])
       \/ \E setName \in {"", "rs0"} :
             Step([ret EXCEPT !.pc = "create_index",
                              !.replica_set_enabled = (setName # ""),
                              !.complaints = TRUE,
                              !.setName = setName])

\* line 59
ConnectCreateIndex ==
    /\ Connect /\ ret.pc = "create_index"
    /\ \E ok \in BOOLEAN :
        Step([ret EXCEPT !.pc = IF ok THEN "returned" ELSE "raised"])

MongoUris ==
    {"mongodb://h/db",
     "mongodb://h/db?w=1",
     "mongodb://h/db?replicaSet=rs0",
     "mongodb://h/db?replicaset=rs0&w=1#f",
     "mongodb://h/db?w=1&replicaSet=rs0&directConnection=false",
     "mongodb://h/db?directConnection=true"}

InitConnect ==
    /\ AtRest
    /\ args \in [fn : {"connect"}, mongo_uri : MongoUris,
                 mongo_allow_standalone_fallback : BOOLEAN]
    /\ ret = Connecting("entry", NoClient, args.mongo_uri, FALSE, FALSE, <<>>,
                        FALSE)

NextConnect ==
    \/ ConnectPing
    \/ ConnectFallbackPing
    \/ ConnectHello
    \/ ConnectCreateIndex

SpecConnect == InitConnect /\ [][NextConnect]_vars

\* ------------------------------------------- PolicyValidationAgent.validate
\* src/cd/backend/ai_agents/system.py.  The agent keeps no state: the review
\* queue file of its tests (REVIEW_FILE) is never opened by validate, so its
\* content stays what it was, here no entry at all.
MaxCalls == 2         \* validate calls per issue type

ALLOWED_ISSUES ==
    <<"Potholes", "Garbage", "Broken Garbage Bin", "Street Light",
      "Public Toilet", "Mosquito Menace", "Water Stagnation",
      "Storm Water Drain", "Stray Dogs", "Fallen Tree", "Others">>

\* "any(allowed.lower() in issue_type.lower() for allowed in ALLOWED_ISSUES)"
validate(issue_type) ==
    IF \E i \in DOMAIN ALLOWED_ISSUES :
          Contains(Lower(issue_type), Lower(ALLOWED_ISSUES[i]))
    THEN "Validated"
    ELSE "Needs_Review"

\* the issue types of the tests, and two the list knows
IssueTypes ==
    {"Sanitation", "Waste Management", "Illegal Parking", "Noise Complaint",
     "Garbage", "broken street light"}

\* validate on each of them
Validated == [issue_type \in IssueTypes |-> validate(issue_type)]

\* what validate leaves of the review queue
ReviewQueueAfter(review_queue, issue_type) == review_queue

PolicyValidate ==
    /\ args.fn \in {"PolicyValidationAgent", "validate"}
    /\ \E issue_type \in IssueTypes :
        /\ ret.calls[issue_type] < MaxCalls
        /\ args' = [fn |-> "validate", issue_type |-> issue_type]
        /\ ret' = [pc |-> "returned",
                   status |-> Validated[issue_type],
                   review_queue |-> ReviewQueueAfter(ret.review_queue, issue_type),
                   calls |-> [ret.calls EXCEPT ![issue_type] = @ + 1]]
    /\ UNCHANGED machineVars

InitPolicy ==
    /\ AtRest
    /\ args = [fn |-> "PolicyValidationAgent"]
    /\ ret = [pc |-> "entry", status |-> "",
              review_queue |-> [t \in IssueTypes |-> 0],
              calls |-> [t \in IssueTypes |-> 0]]

SpecPolicy == InitPolicy /\ [][PolicyValidate]_vars

\* --------------------------------------------- restart, transient store errors
\* The restart above with a store whose calls may raise in the background
\* sweep as well; the worker and the reconciler take their next step
\* whenever they have one (a task that is over has none).
NextTransient ==
    \/ NextRestart
    \/ SweepRaise

SpecTransient == InitRestart /\ [][NextTransient]_vars

FairTransient ==
    /\ SpecTransient
    /\ WF_vars(WorkerNext)
    /\ WF_vars(SweepWake \/ \E s \in Sweepers : SweepNext(s))

\* ------------------------------------------------ standalone, ledger kept
\* The standalone service with the history of claims and success writes
\* kept from the start.
InitLedger ==
    /\ StartedWith("done", FALSE, "returned", NewLedger)
    /\ args = NoArgs
    /\ ret = NoArgs

SpecLedger == InitLedger /\ [][NextStandalone]_vars

\* ------------------------------------------------------------------ claims

\* C1: enqueue(cid) returns false and leaves the FIFO, the queued set and
\* queue_enqueued unchanged when cid is queued or in flight; otherwise it
\* returns true, appends cid at the tail, adds it to the queued set and
\* increments queue_enqueued by exactly 1.
C1_EnqueueContract ==
    [][enq_ret' # NoCall =>
        LET c == enq_ret'.cid IN
        IF c \in queued_ids \/ c = in_flight
        THEN /\ enq_ret'.ret = FALSE
             /\ UNCHANGED <<queue, queued_ids, queue_enqueued>>
        ELSE /\ enq_ret'.ret = TRUE
             /\ queue' = Append(queue, c)
             /\ queued_ids' = queued_ids \cup {c}
             /\ queue_enqueued' = queue_enqueued + 1]_vars

\* an enqueue of the in-flight cid has just been refused
C1_Witness ==
    /\ in_flight # None
    /\ enq_ret = [cid |-> in_flight, ret |-> FALSE]
    /\ queue_enqueued >= 2

\* C2: the queued set never contains the in-flight cid and no cid occurs
\* twice in the FIFO (the queued set is exactly the FIFO's content).
C2_QueueDedup ==
    /\ in_flight \notin queued_ids
    /\ \A i, j \in DOMAIN queue : i # j => queue[i] # queue[j]
    /\ queued_ids = {queue[i] : i \in DOMAIN queue}

\* one cid in flight, the other queued, and a second announcement of the
\* queued one has been refused
C2_Witness ==
    /\ in_flight # None
    /\ queued_ids # {}
    /\ enq_ret.cid \in queued_ids
    /\ enq_ret.ret = FALSE

\* C3: the worker is sequential and FIFO: a cid is in flight exactly while
\* the worker is not idle, and the successful enqueues are handed to the
\* processor in the order they succeeded (the queue holds exactly the
\* enqueues after the last one handed over, oldest first).
C3_SequentialFifo ==
    /\ (wpc = "idle") <=> (in_flight = None)
    /\ Len(tickets) = Len(queue)
    /\ \A i \in DOMAIN tickets : tickets[i] = handed + i
    /\ handed + Len(queue) = queue_enqueued

\* two cids were waiting and the second of them is now in flight
C3_Witness ==
    /\ handed = 3
    /\ in_flight = 1
    /\ queue = <<2>>

\* C4: a claim succeeds only on a document that is unprocessed and pending
\* at that instant and sets its status to processing in the same step; once
\* claimed, a cid is not claimed again until it has been put back to pending.
C4_ClaimCompareAndSet ==
    /\ [][\A c \in CIDs :
            (doc[c].status # "processing" /\ doc'[c].status = "processing") =>
                /\ doc[c].aiProcessed = FALSE
                /\ doc[c].status = "pending"
                /\ doc'[c] = [doc[c] EXCEPT !.status = "processing"]]_vars
    /\ [](\A c \in CIDs : claims_since_pending[c] <= 1)

\* a retried complaint has been claimed again after the reconciler's flip
C4_Witness ==
    \E c \in CIDs :
        /\ in_flight = c
        /\ doc[c].status = "processing"
        /\ retry_attempts[c] > 0
        /\ claims_since_pending[c] = 1

ProcessingPcs ==
    {"priority", "image", "duplicate", "mark_success", "success_ret",
     "mark_failed", "failed_ret"}

\* C5 as stated, on the in-flight periods of complaints that are (or have
\* just been) written back as processed: each has had exactly one claim write.
C5_ExactlyOneClaim ==
    (wpc \in {"claim_none", "success_ret"} /\ doc[in_flight].aiProcessed) =>
        flight_claims = 1

\* C5 amended: at most one claim write per in-flight period: exactly one
\* when the processor goes on to the pipeline, none when the claim returns
\* no document (the item is skipped).
C5_AtMostOneClaim ==
    /\ flight_claims <= 1
    /\ wpc \in ProcessingPcs => flight_claims = 1
    /\ wpc = "claim_none" => flight_claims = 0

\* a cid announced from a stale snapshot is dequeued after it was processed
C5_Witness ==
    /\ wpc = "claim_none"
    /\ doc[in_flight].status = "done"
    /\ flight_claims = 0

\* C6: on an in-flight period without a claimed document the processor
\* writes nothing to the collection, leaves processed_success,
\* processed_failed and retry_attempts alone, and only returns.
C6_SkipSilently ==
    [][(wpc' # wpc /\ wpc # "idle" /\ flight_claims' = 0) =>
        /\ wpc' \in {"claim_none", "raised", "idle"}
        /\ UNCHANGED <<doc, processed_success, processed_failed,
                       retry_attempts>>]_vars

\* the claim of a complaint that has failed (and was not flipped) returned
\* no document
C6_Witness ==
    /\ wpc = "claim_none"
    /\ doc[in_flight].status = "failed"
    /\ processed_failed >= 1

WrittenBack(d) ==
    \/ d.aiProcessed = TRUE /\ d.status \in {"done", "review_required"}
    \/ d.aiProcessed = FALSE /\ d.status = "failed"

\* C7: every write-back of the processor leaves the document either
\* processed with status done / review_required or unprocessed with status
\* failed; no document is ever processed with another status.
C7_WriteBackStates ==
    /\ [][(wpc \in {"mark_success", "mark_failed"} /\ wpc' # wpc
           /\ doc'[in_flight] # doc[in_flight]) =>
              WrittenBack(doc'[in_flight])]_vars
    /\ [](\A c \in CIDs :
            doc[c].aiProcessed => doc[c].status \in {"done", "review_required"})

\* one complaint written back as done, the other as failed
C7_Witness ==
    /\ doc[1].status = "done" /\ doc[1].aiProcessed
    /\ doc[2].status = "failed" /\ ~doc[2].aiProcessed
    /\ processed_success = 1
    /\ processed_failed = 1

\* C8 as stated: when the handler of a failed pipeline is over, the document
\* is unprocessed, failed and carries aiMeta.error.
C8_HandlerMarksFailed ==
    [][(wpc = "mark_failed" /\ wpc' # wpc) =>
        doc'[in_flight] = [status |-> "failed", aiProcessed |-> FALSE,
                           error |-> TRUE]]_vars

\* C9: an exception out of process_complaint does not end the worker: the
\* marker is cleared, the loop is back at get(), and every queued cid is
\* handed to the processor.
C9_WorkerSurvives ==
    /\ [][(wpc = "raised" /\ wpc' # wpc) =>
            (wpc' = "idle" /\ in_flight' = None)]_vars
    /\ \A c \in CIDs : (c \in queued_ids) ~> (in_flight = c)

\* process_complaint has raised while the other complaint waits in the queue
C9_Witness ==
    /\ wpc = "raised"
    /\ queue # <<>>
    /\ doc[in_flight].status = "processing"

\* C10: retry_attempts[cid] never exceeds max_retry_attempts.
C10_RetryBounded ==
    \A c \in CIDs : retry_attempts[c] <= max_retry_attempts

\* a complaint at the cap has failed once more: the next sweep reads the cap
C10_Witness ==
    \E c \in CIDs, s \in Sweepers :
        /\ retry_attempts[c] = max_retry_attempts
        /\ doc[c].status = "failed"
        /\ spc[s] = "failed_loop"
        /\ cursor[s] # <<>>
        /\ Head(cursor[s]) = c

\* C11 as stated: a document goes failed -> pending only by the flip of a
\* sweep whose check read an attempt count below the cap, on an unprocessed
\* failed document; retry_attempts[cid] and retried each go up by exactly 1
\* when, and only when, a flip has modified the document, and enqueue(cid)
\* is called in the same step.
C11_FlipContract ==
    [][/\ \A c \in CIDs :
            (doc[c].status = "failed" /\ doc'[c].status = "pending") =>
                /\ doc[c].aiProcessed = FALSE
                /\ \E s \in Sweepers :
                      /\ spc[s] = "flip" /\ spc'[s] = "flipped"
                      /\ Head(cursor[s]) = c
                      /\ attempt_count[s] < max_retry_attempts
       /\ \A c \in CIDs :
            retry_attempts'[c] > retry_attempts[c] =>
                \E s \in Sweepers : spc[s] = "flipped" /\ Head(cursor[s]) = c
       /\ retried' # retried =>
            \E s \in Sweepers : spc[s] = "flipped" /\ spc'[s] # "flipped"
       /\ \A s \in Sweepers :
            (spc[s] = "flipped" /\ spc'[s] # "flipped") =>
                LET c == Head(cursor[s]) IN
                /\ retry_attempts'[c] = retry_attempts[c] + 1
                /\ retried' = retried + 1
                /\ enq_ret'.cid = c]_vars

C14_PendingSettles ==
    \A c \in CIDs :
        (in_flight = c /\ doc[c].status = "pending") ~>
            (doc[c].status \in {"done", "failed"})

\* C15: when the store is not a replica set, change_stream_running is false
\* in every state, the listener is never subscribed (it is about to return
\* or has returned), no event is ever in a stream for it, and so it never
\* calls enqueue.
C15_ListenerInactive ==
    ~replica_set_enabled =>
        /\ change_stream_running = FALSE
        /\ lpc \in {"start", "returned"}
        /\ events = <<>>

\* standalone store: the listener has returned and a complaint has been
\* announced by the reconciler and processed
C15_Witness ==
    /\ ~replica_set_enabled
    /\ lpc = "returned"
    /\ doc[1].status = "done"
    /\ queue_enqueued >= 1

C17_OneClaimOneWriteBack ==
    /\ [](\A c \in CIDs : claims_since_pending[c] <= 1)
    /\ [][\A c \in CIDs :
            (wpc \in {"mark_success", "mark_failed"} /\ wpc' # wpc
             /\ doc'[c] # doc[c]) =>
                doc[c].status = "processing"]_vars

\* C17 amended: at most one successful claim per pending episode, and the
\* only write-backs are those of the in-flight period that made that claim:
\* one, or two when the success write raises after the store has applied it
\* and the handler then writes the failure over it.
C17_OneClaimPerEpisode ==
    /\ [](\A c \in CIDs : claims_since_pending[c] <= 1)
    /\ [][\A c \in CIDs :
            (wpc \in {"mark_success", "mark_failed"} /\ wpc' # wpc
             /\ doc'[c] # doc[c]) =>
                /\ c = in_flight
                /\ flight_claims = 1
                /\ claims_since_pending[c] = 1
                /\ \/ doc[c].status = "processing"
                   \/ wpc = "mark_failed" /\ doc[c].status = "done"]_vars

\* replica set, listener subscribed: the only complaint has been enqueued
\* twice; it was claimed and written back once, and the second hand-over
\* finds nothing to claim
C17_Witness ==
    /\ replica_set_enabled
    /\ lpc = "watching"
    /\ events = <<>>
    /\ doc[1].status = "done"
    /\ ~Exists(2)
    /\ queue_enqueued = 2
    /\ in_flight = 1
    /\ wpc = "claim_none"
    /\ claims_since_pending[1] = 1

\* C18: each find of a sweep returns the oldest matching complaints, oldest
\* first and at most retry_batch_size of them; the sweep visits them from
\* the head of that cursor, every enqueue it makes is for the complaint at
\* the head and, when it succeeds, appends it at the tail of the FIFO; the
\* failed phase starts only when the pending phase is over.
C18_SweepOrder ==
    [][\A s \in Sweepers :
        LET M(st) == {c \in DOMAIN doc : Matches(doc[c], st)}
            Oldest(q, st) ==
                /\ Len(q) <= retry_batch_size
                /\ Len(q) < retry_batch_size =>
                       {q[i] : i \in DOMAIN q} = M(st)
                /\ \A i, j \in DOMAIN q : i < j => q[i] < q[j]
                /\ \A i \in DOMAIN q :
                       /\ q[i] \in M(st)
                       /\ \A c \in M(st) :
                              c < q[i] => \E j \in DOMAIN q : q[j] = c
            FailedPhase == {"failed_find", "failed_loop", "flip", "flipped"}
        IN
        /\ (spc[s] = "pending_find" /\ spc'[s] # spc[s]) =>
               /\ Oldest(cursor'[s], "pending")
               /\ spc'[s] \in {"pending_loop", "failed_find"}
        /\ (spc[s] = "failed_find" /\ spc'[s] # spc[s]) =>
               Oldest(cursor'[s], "failed")
        /\ (spc[s] \in FailedPhase /\ spc'[s] # spc[s]) =>
               spc'[s] \in FailedPhase \cup {EndOfSweep(s)}
        /\ (spc[s] \in {"pending_loop", "failed_loop", "flip", "flipped"}
            /\ cursor'[s] # cursor[s]) =>
               cursor'[s] = Tail(cursor[s])
        /\ (spc[s] \in {"pending_loop", "flipped"}
            /\ <<spc'[s], cursor'[s]>> # <<spc[s], cursor[s]>>) =>
               /\ enq_ret'.cid = Head(cursor[s])
               /\ cursor'[s] = Tail(cursor[s])
               /\ enq_ret'.ret => queue' = Append(queue, Head(cursor[s]))
      ]_vars

\* 26 failed complaints and a newer pending one: the pending sweep has
\* enqueued the pending one, the failed sweep holds the 25 oldest failed
\* ones and has flipped and enqueued the first two of them
C18_Witness ==
    /\ queue = <<MaxBacklog, 1, 2>>
    /\ spc["startup"] = "failed_loop"
    /\ Len(cursor["startup"]) = retry_batch_size - 2
    /\ Head(cursor["startup"]) = 3
    /\ doc[retry_batch_size + 1].status = "failed"

\* C19 as stated: a complaint whose status is processing is the worker's
\* current in-flight cid; no document is left in processing once the worker
\* has moved on.
C19_ProcessingIsInFlight ==
    \A c \in CIDs : doc[c].status = "processing" => in_flight = c

\* C20 as stated: every stage of the pipeline runs on a claimed document
\* that is still in processing, the write-back comes after the stages and is
\* the only one of its in-flight period (it finds the document in
\* processing), and nothing follows it.
C20_SingleWriteBackLast ==
    [][/\ (wpc' \in PipelineStages \cup {"mark_success", "mark_failed"}
           /\ wpc' # wpc) =>
              /\ flight_claims' = 1
              /\ doc'[in_flight'].status = "processing"
       /\ (wpc \in {"success_ret", "failed_ret"} /\ wpc' # wpc) =>
              wpc' = "idle"]_vars

\* C20 amended: the claim precedes every stage (each stage is entered in an
\* in-flight period that has made its one claim), the success write-back is
\* issued only after the last stage and the failure write-back only from a
\* stage or from the success write-back; a write-back acts on the claimed
\* document while it is in processing, except that a failure write-back may
\* follow a success write-back that raised after being applied; after a
\* write-back has returned nothing more runs for the cid; an in-flight
\* period without a claim runs no stage and writes nothing.
C20_ClaimStagesWriteBack ==
    [][/\ (wpc' \in PipelineStages \cup {"mark_success", "mark_failed"}
           /\ wpc' # wpc) =>
              /\ flight_claims' = 1
              /\ claims_since_pending'[in_flight'] = 1
              /\ wpc' \in PipelineStages \cup {"mark_success"} =>
                     doc'[in_flight'].status = "processing"
       /\ (wpc' = "priority" /\ wpc' # wpc) => wpc = "claim"
       /\ (wpc' = "mark_success" /\ wpc' # wpc) => wpc = "duplicate"
       /\ (wpc' = "mark_failed" /\ wpc' # wpc) =>
              wpc \in PipelineStages \cup {"mark_success"}
       /\ (wpc \in {"mark_success", "mark_failed"} /\ wpc' # wpc
           /\ doc' # doc) =>
              \/ doc[in_flight].status = "processing"
              \/ wpc = "mark_failed" /\ doc[in_flight].status = "done"
       /\ (wpc \in {"success_ret", "failed_ret"} /\ wpc' # wpc) =>
              wpc' = "idle"
       /\ (wpc # "idle" /\ wpc' # wpc /\ flight_claims' = 0) =>
              /\ wpc' \in {"claim_none", "raised", "idle"}
              /\ UNCHANGED doc]_vars

\* the success write-back of a claimed complaint was applied but raised: the
\* handler is about to write the failure over it
C20_Witness ==
    /\ wpc = "mark_failed"
    /\ in_flight = 1
    /\ doc[1].status = "done"
    /\ flight_claims = 1
    /\ processed_failed = 1

\* Present: the stored category is not missing and not empty
CategoryPresent(c) == c # NoCategory /\ c # ""

\* C21 (as stated): whenever the duplicate check returns isDuplicate = true,
\* the matched complaint is another complaint, created within the look-back
\* window, the recorded distance is present and at most 300 m, both
\* categories are present and equal once case-folded, and the recorded
\* similarity is strictly greater than duplicateSimilarityThreshold.
C21_RecordedSimilarityAbove ==
    (ret.pc = "returned" /\ ret.is_duplicate) =>
        /\ ret.matched # NoDocument
        /\ ret.matched.id # args.complaint_id
        /\ ret.matched.recent
        /\ ret.matched_distance_meters # Absent
        /\ ret.matched_distance_meters * 10 <= DUPLICATE_MAX_DISTANCE_METERS
        /\ CategoryPresent(args.category) /\ CategoryPresent(ret.matched.category)
        /\ CategoryFold(args.category) = CategoryFold(ret.matched.category)
        /\ ret.similarity * 10 > duplicate_similarity_threshold

\* C21 (amended): the same, except that the recorded similarity, which is the
\* best similarity rounded to six decimals, is at least the threshold; it is
\* the stored aiMeta value of the match that lies strictly above it.
C21_DuplicateConditions ==
    (ret.pc = "returned" /\ ret.is_duplicate) =>
        /\ ret.matched # NoDocument
        /\ ret.matched.id # args.complaint_id
        /\ ret.matched.recent
        /\ ret.matched_distance_meters # Absent
        /\ ret.matched_distance_meters * 10 <= DUPLICATE_MAX_DISTANCE_METERS
        /\ CategoryPresent(args.category) /\ CategoryPresent(ret.matched.category)
        /\ CategoryFold(args.category) = CategoryFold(ret.matched.category)
        /\ ret.similarity * 10 >= duplicate_similarity_threshold
        /\ \/ ret.method = "dhash64"
              /\ ret.matched.fingerprint > duplicate_similarity_threshold
           \/ ret.method = "mobilenet_cosine_legacy"
              /\ ret.matched.embedding > duplicate_similarity_threshold

\* a duplicate found through the embedding, recorded at exactly the threshold
C21_Witness ==
    /\ ret.pc = "returned"
    /\ ret.is_duplicate
    /\ ret.method = "mobilenet_cosine_legacy"
    /\ ret.similarity * 10 = duplicate_similarity_threshold
    /\ args.category = " Pothole"
    /\ ret.matched.category = " Pothole"

\* C22: whenever a complaint is written back with aiMeta.isAIDuplicate =
\* true, the same write sets priority.score = 0, priority.level = low,
\* priority.reason = "Duplicate complaint" and the status done, whatever the
\* base priority and the semantic match are.
C22_DuplicateForcedLow ==
    (ret.pc = "done" /\ ret.written.aiMeta.isAIDuplicate) =>
        /\ ret.written.score = 0
        /\ ret.written.level = "low"
        /\ ret.written.reason = "Duplicate complaint"
        /\ ret.written.aiProcessingStatus = "done"
        /\ ret.written.aiProcessed

\* a duplicate whose base priority is high and whose image contradicts the
\* category has been written back
C22_Witness ==
    /\ Item /\ ret.pc = "done"
    /\ ret.written.aiMeta.isAIDuplicate
    /\ ret.base_priority.priority_level = "high"
    /\ ret.base_priority.priority_score > 0
    /\ ret.written.aiMeta.semanticCategoryMatch = "False"

MismatchText == "Image semantic mismatch fallback applied"

\* reason is base followed by an appendix that mentions the mismatch
MismatchAppended(reason, base) ==
    /\ Len(reason) > Len(base)
    /\ SubSeq(reason, 1, Len(base)) = base
    /\ Contains(SubSeq(reason, Len(base) + 1, Len(reason)), MismatchText)

\* C23: for a non-duplicate complaint the written score and level are those
\* of the base priority whatever the semantic match is; the reason is the
\* base reason, with the text "Image semantic mismatch fallback applied"
\* appended iff the semantic match is false; semanticFallbackUsed is true iff
\* semanticCategoryMatch is false.
C23_BasePriorityKept ==
    (ret.pc = "done" /\ ~ret.written.aiMeta.isAIDuplicate) =>
        /\ ret.written.score = ret.base_priority.priority_score
        /\ ret.written.level = ret.base_priority.priority_level
        /\ IF ret.written.aiMeta.semanticCategoryMatch = "False"
           THEN MismatchAppended(ret.written.reason, ret.base_priority.reason)
           ELSE ret.written.reason = ret.base_priority.reason
        /\ ret.written.aiMeta.semanticFallbackUsed
              <=> ret.written.aiMeta.semanticCategoryMatch = "False"

\* a non-duplicate with a mismatching image has been written back
C23_Witness ==
    /\ Item /\ ret.pc = "done"
    /\ ~ret.written.aiMeta.isAIDuplicate
    /\ ret.written.aiMeta.semanticCategoryMatch = "False"
    /\ ret.written.aiMeta.semanticFallbackUsed
    /\ ret.written.level = "medium"
    /\ ret.written.reason
          = "Text 4.5; Image semantic mismatch fallback applied (negative)"

\* the complaint has no image URL, or the download of its image has failed
NoImage ==
    /\ Item
    /\ ret.pc \notin {"compute", "analyze"}
    /\ "compute" \notin ret.raised
    /\ ~args.image_url \/ "download" \in ret.raised

\* C24: a complaint without image URL, or whose image cannot be fetched or
\* decoded, is not marked failed on that account: the inference context is
\* empty (semanticNote "no_image" / "image_unavailable", semantic match null,
\* no fingerprint, no embedding), the duplicate check returns not-duplicate
\* without scanning candidates, and the item goes to the success write-back.
C24_NoImageTolerated ==
    NoImage =>
        /\ ret.image_context.semantic_note
              = (IF args.image_url THEN "image_unavailable" ELSE "no_image")
        /\ ret.image_context.semantic_category_match = "None"
        /\ ~ret.image_context.semantic_fallback_used
        /\ ~ret.image_context.image_fingerprint
        /\ ~ret.image_context.embedding
        /\ ret.invoked = {}
        /\ ~ret.scanned
        /\ ret.pc # "duplicate" => ret.duplicate_match.is_duplicate = FALSE
        /\ \/ ret.pc \in {"duplicate", "write", "done"}
           \/ ret.pc \in {"except", "failed"} /\ ret.raised \ {"download"} = {"mark_success"}
        /\ ret.pc = "done" =>
              /\ ret.written.aiProcessingStatus = "done"
              /\ ret.written.aiMeta.semanticNote = ret.image_context.semantic_note
              /\ ret.written.aiMeta.isAIDuplicate = FALSE

\* a complaint whose download failed has been written back as done
C24_Witness ==
    /\ Item /\ ret.pc = "done"
    /\ "download" \in ret.raised
    /\ ret.written.aiProcessingStatus = "done"
    /\ ret.written.aiMeta.semanticNote = "image_unavailable"
    /\ ~ret.scanned

InferenceStages == {"embedding", "classification", "detection"}

\* C25: whichever of the three inference stages (embedding, classification,
\* detection) fail on a fetched image, every stage is still invoked, a failed
\* stage contributes an empty value, and the item goes on to the success
\* write-back.
C25_InferenceTolerated ==
    (Item /\ ret.image_fingerprint
          /\ ret.pc \notin {"embedding", "classify", "detect"}) =>
        /\ \/ ret.pc \in {"duplicate", "write", "done"}
           \/ /\ ret.pc \in {"except", "failed"}
              /\ ret.raised \cap {"duplicate", "mark_success"} # {}
        /\ ret.invoked = InferenceStages
        /\ "embedding" \in ret.raised <=> ~ret.image_context.embedding
        /\ "classification" \in ret.raised
              <=> ret.image_context.mobilenet_result = NoResult
        /\ "detection" \in ret.raised => ret.image_context.yolo_detections = <<>>
        /\ ret.image_context.image_fingerprint
        /\ ret.pc = "done" => ret.written.aiProcessingStatus = "done"

\* all three stages have failed and the complaint has been written back done
C25_Witness ==
    /\ Item /\ ret.pc = "done"
    /\ ret.raised = InferenceStages
    /\ ret.invoked = InferenceStages
    /\ ret.written.aiProcessingStatus = "done"
    /\ ret.written.aiMeta.semanticNote = "no_semantic_signals"

\* every long-lived task is over
AllFinished == \A t \in Tasks : Position(t) \in Finished

\* C26: when the shutdown is over, each of the three long-lived tasks
\* (reconciler, listener, queue worker) has been signalled and has
\* terminated; and the HTTP client and the store client are closed only once
\* all three tasks have terminated, so that no task uses a closed client.
C26_ShutdownOrder ==
    /\ lifespan \in {"closed", "raised"} => (stopping = Tasks /\ AllFinished)
    /\ closed # {} => AllFinished

\* C27: a task on which stop() was called is over or has a cancellation
\* waiting for it, and then its next step, whatever it was doing, is its
\* termination; a stop() that awaits a cancelled task returns (it does not
\* raise); and inFlightComplaintId is null once the worker has terminated.
C27_CancelledTerminates ==
    [][/\ \A t \in Tasks :
            /\ t \in stopping => (t \in cancelling \/ Position(t) \in Finished)
            /\ (t \in cancelling /\ Position(t)' # Position(t))
                   => Position(t)' \in Finished
       /\ (lifespan \in Tasks /\ Position(lifespan) = "cancelled"
              /\ lifespan' # lifespan) => lifespan' # "raised"
       /\ wpc' \in Finished => in_flight' = None]_vars

\* the service was shut down while the worker was in the middle of an item
\* (claimed, not yet written back), with the listener subscribed and the
\* reconciler at work or asleep: all three were cancelled, every stop()
\* returned and both clients were closed
C27_Witness ==
    /\ lifespan = "closed"
    /\ wpc = "cancelled" /\ doc[1].status = "processing" /\ in_flight = None
    /\ lpc = "cancelled"
    /\ spc["task"] = "cancelled"
    /\ cancelling = {}

\* the phrases the validation may look at: the labels of the detections
\* with confidence >= yoloMinConfidenceForSeverity, the classifier's top
\* label and its two alternates, lower-cased and normalised, blanks dropped
EligiblePhrases ==
    {p \in {_normalize_phrase(Lower(args.yolo_detections[i].label)) :
               i \in {j \in DOMAIN args.yolo_detections :
                        args.yolo_detections[j].confidence
                            >= yolo_min_confidence_for_severity}}
            \cup (IF args.mobilenet_result = NoResult THEN {}
                  ELSE {_normalize_phrase(Lower(args.mobilenet_result.label))}
                       \cup {_normalize_phrase(Lower(args.mobilenet_result.top_labels[i])) :
                                i \in 1..3}) :
        p # ""}

KnownCategory == Lower(Strip(args.category)) \in ProfileCategories

Hit(terms) == \E t \in terms : \E p \in EligiblePhrases : Contains(p, t)

PositiveHit ==
    KnownCategory /\ Hit(SEMANTIC_PROFILES(Lower(Strip(args.category))).positive)

NegativeHit ==
    KnownCategory /\ Hit(SEMANTIC_PROFILES(Lower(Strip(args.category))).negative)

GenericOnly ==
    /\ EligiblePhrases # {}
    /\ \A p \in EligiblePhrases : \A i \in DOMAIN Split(p) :
          Split(p)[i] \in GENERIC_TRAFFIC_TERMS

\* C28 (as stated): the validation returns match = null for every category
\* whenever there is no eligible phrase, or the token pool of the phrases is
\* made up of generic traffic terms only, or the category has no profile.
C28_GenericOnlyNull ==
    (ret.pc = "returned" /\ (EligiblePhrases = {} \/ GenericOnly \/ ~KnownCategory))
        => ret.match = "None"

\* C28 (amended): the validation returns match = null whenever the category
\* has no profile, or there is no eligible phrase, or no positive term is
\* hit and the token pool is made up of generic traffic terms only.
C28_NullOutcomes ==
    (ret.pc = "returned"
        /\ (EligiblePhrases = {} \/ ~KnownCategory \/ (GenericOnly /\ ~PositiveHit)))
        => ret.match = "None"

\* a category without profile, with a phrase that a profile would accept
C28_Witness ==
    /\ ret.pc = "returned"
    /\ args.category = "other"
    /\ "manhole cover" \in EligiblePhrases
    /\ ret.match = "None"

\* C29: the validation returns match = true iff some positive term of the
\* category's profile is a substring of some eligible phrase, a negative hit
\* notwithstanding; it returns match = false only if there is no positive
\* hit, at least two phrases were considered and a negative term is hit; the
\* phrases are the labels of the detections with confidence >=
\* yoloMinConfidenceForSeverity and the classifier's top label with its two
\* alternates.
C29_MatchOutcomes ==
    ret.pc = "returned" =>
        LET considered == Phrases(args.yolo_detections, args.mobilenet_result) IN
        /\ {considered[i] : i \in DOMAIN considered} = EligiblePhrases
        /\ ret.match = "True" <=> PositiveHit
        /\ ret.match = "False" =>
              ~PositiveHit /\ Len(considered) >= 2 /\ NegativeHit

\* a positive and a negative term are both hit, and the match is true
C29_Witness ==
    /\ ret.pc = "returned"
    /\ args.category = "garbage"
    /\ PositiveHit /\ NegativeHit
    /\ Len(args.yolo_detections) = 1
    /\ args.yolo_detections[1] = Detection("laptop", 40)
    /\ ret.match = "True"

LevelRank(level) ==
    CASE level = "low" -> 1 [] level = "medium" -> 2 [] level = "high" -> 3

\* C30: the level is low for a final score < 3, medium for 3 <= score <= 6
\* and high for score > 6; the final score is never negative; the level is
\* non-decreasing in the score.
C30_LevelOfScore ==
    ret.pc = "returned" =>
        /\ ret.priority_score >= 0
        /\ ret.priority_level =
              (IF ret.priority_score < 300 THEN "low"
               ELSE IF ret.priority_score <= 600 THEN "medium"
               ELSE "high")
        /\ \A a, b \in SeverityScores :
              PriorityScore(a, 0, 0) <= PriorityScore(b, 0, 0) =>
                  LevelRank(_map_level(PriorityScore(a, 0, 0)))
                      <= LevelRank(_map_level(PriorityScore(b, 0, 0)))

\* a sensitive location within 2 km of the complaint names one of the words
Near(words) ==
    \E d \in args.sensitive_locations :
        /\ d.location.coordinates \in {<<"0", "0">>, <<"0", "2000">>}
        /\ \E w \in words, text \in {d.type, d.name, d.category} :
              Contains(Lower(text), w)

\* C31: the rules are tried in the order school (1.5), hospital | clinic |
\* medical (1.4), metro | subway | station (1.2) and the first one with a
\* matching sensitive location within 2 km is returned (school wins over
\* hospital); with no match, or with absent or malformed coordinates, the
\* result is 1.0 / "none".
C31_FirstRuleWins ==
    (args.fn = "resolve" /\ ret.pc = "returned") =>
        LET expected ==
                IF args.complaint.location # Point("0") THEN <<10, "none">>
                ELSE IF Near({"school"}) THEN <<15, "school">>
                ELSE IF Near({"hospital", "clinic", "medical"})
                THEN <<14, "hospital">>
                ELSE IF Near({"metro", "subway", "station"})
                THEN <<12, "metro">>
                ELSE <<10, "none">>
        IN <<ret.multiplier, ret.matched_type>> = expected

\* a complaint with a school and a medical centre within 2 km got 1.5 / school
C31_Witness ==
    /\ args.fn = "resolve" /\ ret.pc = "returned"
    /\ Near({"school"}) /\ Near({"hospital", "clinic", "medical"})
    /\ ret.multiplier = 15 /\ ret.matched_type = "school"

\* the query parameters of a URI, keys in lower case
Params(uri) ==
    {<<Lower(parse_qsl(urlsplit(uri).query)[i][1]),
       parse_qsl(urlsplit(uri).query)[i][2]>> :
         i \in DOMAIN parse_qsl(urlsplit(uri).query)}

\* C32: connect() pings the configured URI once; a second ping happens only
\* after the first failed with the URI carrying a replica-set parameter and
\* the fallback enabled, there is at most one, and its URI is the standalone
\* rewrite (no replica-set parameter, direct connection set); when connect()
\* raised without a ping succeeding no collection handle is set; and
\* replicaSetEnabled is true only if the server reported a set name.
C32_ConnectFallback ==
    Connect =>
        /\ Len(ret.pinged) <= 2
        /\ ret.pinged # <<>> => ret.pinged[1] = args.mongo_uri
        /\ Len(ret.pinged) = 2 =>
              /\ args.mongo_allow_standalone_fallback
              /\ \E p \in Params(args.mongo_uri) : p[1] = "replicaset"
              /\ \A p \in Params(ret.pinged[2]) : p[1] # "replicaset"
              /\ <<"directconnection", "true">> \in Params(ret.pinged[2])
              /\ \A p \in Params(ret.pinged[2]) :
                    p[1] = "directconnection" => p[2] = "true"
        /\ (ret.pc = "raised" /\ ~ret.answered) => ~ret.complaints
        /\ ret.replica_set_enabled => ret.setName # ""

\* the issue types the tests of the agent take as allowed (one directly,
\* one through a synonym) and as unrecognised
TestedAllowed == {"Sanitation", "Waste Management"}
TestedUnrecognised == {"Illegal Parking", "Noise Complaint"}

\* C33: validate returns "Policy_Validated" for an allowed issue type
\* (directly or through a synonym) and "Needs_Review" for an unrecognised
\* one, and the review queue counts every validate call on an unrecognised
\* issue type (two calls leave a count of 2).
C33_PolicyValidation ==
    args.fn = "validate" =>
        /\ args.issue_type \in TestedAllowed => ret.status = "Policy_Validated"
        /\ args.issue_type \in TestedUnrecognised => ret.status = "Needs_Review"
        /\ \A t \in TestedUnrecognised : ret.review_queue[t] = ret.calls[t]

\* where the processing of the item has got to
PriorityComputed == ret.base_priority # NoPriority
ImageStarted ==
    \/ ret.image_fingerprint \/ ret.invoked # {} \/ "download" \in ret.raised
    \/ ret.image_context # EmptyContext("<not run>")
ImageAnalysed == ret.image_context # EmptyContext("<not run>")
DuplicateChecked == ret.scanned \/ ret.duplicate_match # NoMatch

C35_FlipsBounded == retried <= max_retry_attempts

\* C36: a store error raised during a sweep does not stop the reconciler:
\* the task of the reconciler is never ended by an exception (after the
\* failed sweep it is alive, waiting for its next interval or sweeping).
C36_ReconcilerSurvives == spc["task"] # "crashed"

\* C37: a failed complaint with retries left, which no sweep is in the
\* middle of flipping, is eventually flipped back to pending by a failed
\* sweep, however many older failed complaints have used up their retries.
C37_YoungestFlipped ==
    (/\ doc[Youngest].status = "failed"
     /\ retry_attempts[Youngest] < max_retry_attempts
     /\ spc["task"] \notin {"flip", "flipped"})
      ~> (doc[Youngest].status = "pending")

\* C38: a complaint flipped failed -> pending is not lost.  Each flip is
\* counted once (retried and the complaint's retry_attempts go up by one)
\* whatever enqueue returns, and a flipped complaint (pending, not claimed
\* since the flip) whose enqueue was rejected is eventually taken up by the
\* worker, which issues its claim.
C38_FlipNotLost ==
    /\ [][\A s \in Sweepers :
            (spc[s] = "flipped" /\ spc'[s] # "flipped") =>
                /\ retried' = retried + 1
                /\ retry_attempts'[Head(cursor[s])] =
                       NextAttempt(attempt_count[s])]_vars
    /\ (/\ enq_ret = [cid |-> 1, ret |-> FALSE]
        /\ doc[1].status = "pending"
        /\ queue_enqueued < MaxEnqueued)
         ~> (\/ in_flight = 1 /\ wpc = "claim"
             \/ claims_since_pending[1] > 0)

\* the scanned candidates above the similarity threshold that pass the
\* distance and the category gate, and the highest similarity scanned
Qualifying(seen) ==
    {c \in seen : c.similarity > duplicate_similarity_threshold /\ c.gates}

Highest(seen) == {c \in seen : \A o \in seen : o.similarity <= c.similarity}

DuplicateReturned ==
    args.fn = "_check_duplicate_from_embedding" /\ ret.pc = "returned"

\* C39 as stated: when some scanned candidate has similarity above the
\* threshold, lies within 300 m and has the complaint's category, the
\* complaint is marked duplicate.
C39_AnyCandidateGates ==
    (DuplicateReturned /\ Qualifying(ret.candidates) # {}) => ret.is_duplicate

\* C39 (amended): the gates are applied to the highest-similarity candidate
\* alone.  The complaint is marked duplicate when every candidate of the
\* highest similarity scanned qualifies, and only when one of them does: a
\* qualifying candidate of lower similarity does not make it a duplicate.
C39_BestCandidateGates ==
    DuplicateReturned =>
        /\ (/\ ret.candidates # {}
            /\ Highest(ret.candidates) \subseteq Qualifying(ret.candidates))
              => ret.is_duplicate
        /\ ret.is_duplicate =>
              Highest(ret.candidates) \cap Qualifying(ret.candidates) # {}

\* the scan has returned "no duplicate" although a candidate of lower
\* similarity qualified: the most similar one is too far away
C39_Witness ==
    /\ args.fn = "_check_duplicate_from_embedding"
    /\ ret.pc = "returned"
    /\ ~ret.is_duplicate
    /\ ret.similarity * 10 > duplicate_similarity_threshold
    /\ ret.matched_distance_meters # Absent
    /\ ret.matched.distance > DUPLICATE_MAX_DISTANCE_METERS
    /\ ret.category_match = "True"
    /\ Qualifying(ret.candidates) # {}

\* no cid is in flight
Quiescent == in_flight = None

====
